---- MODULE Spec2Model ----
(***************************************************************************)
(* okrchestra orchestration core: the durable job store (SQLite-backed     *)
(* daemon_jobs / daemon_kv tables), the watermark-driven scheduler and the *)
(* claim protocol of the daemon loop.                                      *)
(*                                                                         *)
(* Time.  A time.Time is an integer count of clock units since the model   *)
(* epoch 2024-01-01T00:00:00Z (a Monday, a whole number of weeks after     *)
(* Go's zero time, so Truncate and Weekday agree with Go's).  One second   *)
(* is Sub units, so instants carry sub-second precision.  A column or KV   *)
(* value holding an RFC 3339 string at second resolution is the integer    *)
(* count of whole seconds since the epoch; string comparison of such       *)
(* strings is integer comparison of the counts.                            *)
(***************************************************************************)
EXTENDS Integers, Sequences, FiniteSets, TLC

VARIABLES
    clock,      \* the wall clock read by time.Now()
    jobs,       \* committed rows of daemon_jobs
    kv,         \* committed rows of daemon_kv: key -> value
    claimTx,    \* per daemon: the ClaimNext transaction in progress
    enqCall,    \* per process: the EnqueueUnique call in progress
    ret,        \* what the last call that ran alone returned
    enqueued,   \* (type, second) pairs some EnqueueUnique call returned for
    location,   \* the scheduler's zone, as its UTC offset in seconds
    emitted,    \* <<type, instant>> pairs Scheduler.Tick passed to EnqueueUnique
    coldMark,   \* the watermark written by the first ever Tick
    lastTick,   \* what the last Scheduler.Tick call saw and did
    jumps,      \* how often the scheduler specification moved the clock
    tickTx,     \* per scheduler: the Tick call in progress
    fs,         \* the watched files of the workspace: path -> content and mtime
    lastWatch,  \* what the last run of the watch_tick handler saw and did
    edits,      \* how often the watched files were changed
    run,        \* the daemon loop's position in claimAndExecute
    audit,      \* the audit log: events in the order they were appended
    doc,        \* the result.json file handed to the validator
    verdict,    \* what ValidateResultJSON and validateAgentResult returned for it
    planRun,    \* RunPlan's position, its RunResult and the error it returned
    itemDirs,   \* the item directories of the run: item -> the files in it
    cancelled,  \* the daemon's context is cancelled (the shutdown signal came)
    ticker,     \* ticker.C holds a tick
    lost,       \* the types of the audit events whose LogEvent call failed
    dirRuns,    \* per runner: the plan run it has started and its run directory
    runFiles,   \* the files written under runs/: directory, item, name, writer
    invoked,    \* ids of the rows a handler was invoked for, in order
    okrsTree,   \* okrs/ of a workspace under the guardrail: working tree, VCS index, VCS workdir or not
    guardCheck  \* the guardrail check of an adapter run: its step, before_hash, the violation record

vars == <<clock, jobs, kv, claimTx, enqCall, ret, enqueued,
          location, emitted, coldMark, lastTick, jumps, tickTx,
          fs, lastWatch, edits, run, audit, doc, verdict, planRun, itemDirs,
          cancelled, ticker, lost,
          dirRuns, runFiles,
          invoked,
          okrsTree, guardCheck>>

storeVars == <<jobs, kv>>
raceVars  == <<claimTx, enqCall>>
schedVars == <<location, emitted, coldMark, lastTick, jumps>>
tickVars  == <<tickTx>>
watchVars == <<fs, lastWatch, edits>>
loopVars  == <<run, audit>>
guardVars == <<doc, verdict>>
planVars  == <<planRun, itemDirs>>
procVars  == <<cancelled, ticker, lost>>
dirVars   == <<dirRuns, runFiles>>
onceVars  == <<invoked>>
revertVars == <<okrsTree, guardCheck>>

----------------------------------------------------------------------------
(* Bounds of the model *)

Sub == 2            \* clock units per second
MaxJobs == 2        \* rows the store specifications let daemon_jobs hold
MaxJumps == 4       \* clock movements of the scheduler specification
MaxConcJumps == 2   \* clock movements while two schedulers tick
MaxEdits == 2       \* changes made to the watched files
MaxWatchJumps == 2  \* clock movements of the watcher specification
MaxLeaseJumps == 2  \* clock movements while leases run out
MaxLiveJumps == 2   \* clock movements while the queue is drained
MaxBackJumps == 3   \* clock movements, forward or back, between Ticks
MaxElems == 1       \* elements of an array in a result.json document
MaxItems == 2       \* items of a plan

MaxClock == Sub     \* the store specifications stop the clock here
MaxSchedAt == Sub   \* largest scheduled_at instant handed to EnqueueUnique

(* Program constants *)

NULL == -1                  \* SQL NULL in a nullable timestamp column
EmptyString == -2           \* the "" GetKV returns for a missing key
DefaultLeaseSeconds == 30   \* cfg.LeaseFor default
WatchIntervalSeconds == 30  \* interval := 30 * time.Second
DayHours == 24              \* 24 * time.Hour
KrMeasureHour == 2          \* kr_measure daily at 02:00
KrMeasureMinute == 0
PlanHour == 9               \* plan_generate / plan_execute Monday at 09:00 / 09:15
PlanGenerateMinute == 0
PlanExecuteMinute == 15
Monday == 1                 \* time.Monday

Daemons == {"daemon-a", "daemon-b"}     \* distinct lease owners
Procs == {"p1", "p2"}                   \* processes calling EnqueueUnique
Schedulers == {"s1", "s2"}              \* schedulers on one store

\* the watched locations: ws.OKRsDir, metrics/manual.yml, artifacts/plans
OkrsFiles == {"okrs/a.yml"}
ManualFile == "metrics/manual.yml"
PlanFiles == {"artifacts/plans/p1/plan.json", "artifacts/plans/p2/plan.json"}
WatchedFiles == OkrsFiles \cup {ManualFile} \cup PlanFiles

\* what a plan run writes below the directory of its plan.json: the prompt
\* and the adapter's result of an item
RunPrompt == "artifacts/plans/p1/runs/r/item-0001/prompt.md"
RunResult == "artifacts/plans/p1/runs/r/item-0001/result.json"
RunArtifacts == {RunPrompt, RunResult}
AllFiles == WatchedFiles \cup RunArtifacts

\* watchDirectory tracks the files of extension .yml, .yaml and .json
TrackedExt(path) == path # RunPrompt

\* the tracked files a walk of artifacts/plans can come upon
PlansDirFiles == {p \in PlanFiles \cup RunArtifacts : TrackedExt(p)}

\* a file: the hash of its content (0: there is no file) and its mtime
File(hash, mtime) == [hash |-> hash, mtime |-> mtime]
Absent == File(0, 0)
Contents == {1, 2}
MTimes == {0, 1}

\* okrs/ under the guardrail: a file under version control and one more
GuardFiles == {"okrs/a.yml", "okrs/b.yml"}

\* a workspace: its files under okrs/, the VCS index entries of okrs/ (no
\* file: the path is not tracked), and whether it is a VCS workdir
Tree(work, index, repo) == [work |-> work, index |-> index, repo |-> repo]
NoTree == Tree([p \in GuardFiles |-> Absent], [p \in GuardFiles |-> Absent], FALSE)

\* the guardrail around an adapter run: where it is, before_hash, and the
\* reverted and revert_error of violation.json
Check(pc, before, reverted, revertError) ==
    [pc |-> pc, before |-> before, reverted |-> reverted,
     revert_error |-> revertError]
NoCheck == Check("idle", {}, FALSE, "")

\* the daemon loop: where it is in claimAndExecute, the job it claimed and
\* the error of the handler
Run(pc, job, jobType, err) == [pc |-> pc, job |-> job, type |-> jobType, err |-> err]

\* the daemon loop between two calls of claimAndExecute
NoJob == <<"", 0>>
IdleRun == Run("idle", NoJob, "", "")

(* result.json documents.  A document is what the file holds at its top
   level and, for an object, the value of each field; a value is a JSON
   null, number, string or array, and an array is the kinds of its
   elements. *)
FieldNames ==
    {"schema_version", "summary", "proposed_changes", "kr_targets",
     "kr_impact_claim", "extra"}

Value(kind, s, elems) == [kind |-> kind, s |-> s, elems |-> elems]
JAbsent == Value("absent", "", <<>>)
JNull == Value("null", "", <<>>)
JNum == Value("number", "", <<>>)
JStr(s) == Value("string", s, <<>>)
JArr(elems) == Value("array", "", elems)

\* top: "missing" (no file), "text" (not JSON), "array", "null" or "object"
Doc(top, fields) == [top |-> top, fields |-> fields]
NoDoc == Doc("missing", [f \in FieldNames |-> JAbsent])

\* what the two validators returned: "" is nil
Verdict(strict, agent) == [strict |-> strict, agent |-> agent]
NoVerdict == Verdict("unchecked", "unchecked")

(* Plan runs.  The items of the plan are 1..MaxItems, in plan order. *)
Items == 1..MaxItems

\* an item directory: prompt.md, result.json, violation.json
ItemDir(prompt, result, violation) ==
    [prompt |-> prompt, result |-> result, violation |-> violation]
EmptyDir == ItemDir(FALSE, NoDoc, FALSE)

\* (*RunResult, error) of Adapter.Run
AdapterReturn(returned, transcript, runErr) ==
    [returned |-> returned, transcript |-> transcript, runErr |-> runErr]

\* a call of Adapter.Run: what it returned, and the protected tree before
\* and after it
AdapterCall(result, before, after) ==
    [result |-> result, before |-> before, after |-> after]

\* RunPlan: pc, the item at hand, the adapter calls made so far (one per
\* item), RunResult.ItemRuns, and the error RunPlan returned
PlanRun(pc, idx, calls, itemRuns, err) ==
    [pc |-> pc, idx |-> idx, calls |-> calls, itemRuns |-> itemRuns, err |-> err]
IdlePlan == PlanRun("idle", 0, <<>>, <<>>, "")

\* who runs plans: the daemon's plan_execute handler and `okrchestra plan run`
Runners == {"daemon", "cli"}

\* a plan run's place: before RunPlan, in its item loop, returned
DirRun(pc, dir, idx) == [pc |-> pc, dir |-> dir, idx |-> idx]
NoDirRun == DirRun("idle", <<"", 0>>, 0)

JobTypes == {"kr_measure", "watch_tick"}

\* alphabetical rank of a job type: ids are "<type>_<time>", so for two
\* rows of one scheduled_at the id order is the order of the type names
TypeRank(type) ==
    CASE type = "kr_measure" -> 1
      [] type = "plan_execute" -> 2
      [] type = "plan_generate" -> 3
      [] type = "watch_tick" -> 4

----------------------------------------------------------------------------
(* Conversions *)

\* t.UTC().Format(time.RFC3339): the sub-second part is dropped
FormatRFC3339Bad(t) == t
FormatRFC3339(t) == t \div Sub

\* time.Parse(time.RFC3339, s)
ParseRFC3339(s) == s * Sub

\* fmt.Sprintf("%s_%s", jobType, scheduledAt.UTC().Format("2006-01-02T15:04:05"))
JobID(jobType, t) == <<jobType, t \div Sub>>

\* string order of two job ids
IdLess(a, b) ==
    \/ TypeRank(a[1]) < TypeRank(b[1])
    \/ a[1] = b[1] /\ a[2] < b[2]

----------------------------------------------------------------------------
(* daemon_jobs rows and the SQL statements over them *)

\* payload_json: the fields the watcher's follow-up jobs carry
Payload(trigger, files, planPath) ==
    [trigger |-> trigger, files |-> files, plan_path |-> planPath]
NoPayload == Payload("", {}, "")

NewRow(id, jobType, scheduledAtStr) ==
    [id |-> id, type |-> jobType, status |-> "queued",
     scheduled_at |-> scheduledAtStr, started_at |-> NULL,
     finished_at |-> NULL, payload_json |-> NoPayload, result_json |-> "null",
     lease_owner |-> "", lease_expires_at |-> NULL]

\* SELECT id FROM daemon_jobs WHERE type = ? AND scheduled_at = ?
ExistingIDsBad(J, jobType, scheduledAtStr) ==
    {r.id : r \in {x \in J : x.scheduled_at = scheduledAtStr}}
ExistingIDs(J, jobType, scheduledAtStr) ==
    {r.id : r \in {x \in J : x.type = jobType /\ x.scheduled_at = scheduledAtStr}}

\* id TEXT PRIMARY KEY: an INSERT of a present id fails
InsertAllowed(J, id) == \A r \in J : r.id # id

\* INSERT INTO daemon_jobs (id, type, status, scheduled_at, payload_json)
InsertJob(J, id, jobType, scheduledAtStr) ==
    J \cup {NewRow(id, jobType, scheduledAtStr)}

\* SELECT id FROM daemon_jobs WHERE status = 'queued' AND scheduled_at <= ?
ReadyRowsBad(J, nowStr) ==
    {r \in J : r.status \in {"queued", "running"} /\ r.scheduled_at <= nowStr}
ReadyRows(J, nowStr) ==
    {r \in J : r.status = "queued" /\ r.scheduled_at <= nowStr}

\* ... ORDER BY scheduled_at ASC LIMIT 1: the rows the query may return.
\* Rows of equal scheduled_at are left in an order SQL does not define.
NextCandidatesBad(J, nowStr) ==
    {r \in ReadyRows(J, nowStr) :
        \A o \in ReadyRows(J, nowStr) : r.scheduled_at >= o.scheduled_at}
NextCandidates(J, nowStr) ==
    {r \in ReadyRows(J, nowStr) :
        \A o \in ReadyRows(J, nowStr) : r.scheduled_at <= o.scheduled_at}

\* UPDATE daemon_jobs SET status = 'running', started_at = ?,
\*   lease_owner = ?, lease_expires_at = ? WHERE id = ?
ClaimRowBad(J, id, startedAt, leaseOwner, leaseExpiresAt) ==
    {IF r.id = id
        THEN [r EXCEPT !.status = "running", !.lease_owner = leaseOwner,
                       !.lease_expires_at = leaseExpiresAt]
        ELSE r : r \in J}
ClaimRow(J, id, startedAt, leaseOwner, leaseExpiresAt) ==
    {IF r.id = id
        THEN [r EXCEPT !.status = "running", !.started_at = startedAt,
                       !.lease_owner = leaseOwner,
                       !.lease_expires_at = leaseExpiresAt]
        ELSE r : r \in J}

\* UPDATE daemon_jobs SET status = ?, finished_at = ?, result_json = ?
\*   WHERE id = ?
FinishRowBad(J, id, status, finishedAt, resultJSON) ==
    {[r EXCEPT !.status = status, !.finished_at = finishedAt,
               !.result_json = resultJSON] : r \in J}
FinishRow(J, id, status, finishedAt, resultJSON) ==
    {IF r.id = id
        THEN [r EXCEPT !.status = status, !.finished_at = finishedAt,
                       !.result_json = resultJSON]
        ELSE r : r \in J}

\* GetJob: the row of an id
GetJob(J, id) == CHOOSE r \in J : r.id = id

----------------------------------------------------------------------------
(* daemon_kv *)

GetKV(key) == IF key \in DOMAIN kv THEN kv[key] ELSE EmptyString

SetKV(key, value) ==
    [k \in DOMAIN kv \cup {key} |-> IF k = key THEN value ELSE kv[k]]

----------------------------------------------------------------------------
(* Values returned by the store's operations *)

NoCall == [op |-> "none"]

ClaimReturn(d, kind, id) == [op |-> "ClaimNext", by |-> d, kind |-> kind, id |-> id]

EnqReturn(kind, id, pair, first) ==
    [op |-> "EnqueueUnique", kind |-> kind, id |-> id, pair |-> pair,
     first |-> first]

FinishReturn(op, id) == [op |-> op, id |-> id]

IdleTx == [pc |-> "idle"]

\* a scheduler that is not in a Tick call, and how its last call ended
TickDone(result) == [pc |-> "idle", result |-> result]
IdleTick == TickDone("none")

----------------------------------------------------------------------------
(* What the claims speak about, stated apart from the code's own queries *)

TerminalStatuses == {"succeeded", "failed"}

\* the (type, second) pair a call of EnqueueUnique is for
PairOf(jobType, scheduledAt) == <<jobType, scheduledAt \div Sub>>

\* rows of a pair
RowsOfPair(J, pair) == {r \in J : r.type = pair[1] /\ r.scheduled_at = pair[2]}

\* <<scheduled_at, id>> of the rows that are queued and due at instant now
DueKeys(J, now) ==
    {<<r.scheduled_at, r.id>> :
        r \in {x \in J : x.status = "queued" /\ x.scheduled_at * Sub <= now}}

\* lexicographic order on <<scheduled_at, id>>
KeyLeq(a, b) ==
    \/ a[1] < b[1]
    \/ a[1] = b[1] /\ (a[2] = b[2] \/ IdLess(a[2], b[2]))

----------------------------------------------------------------------------
(* The store's operations, each call running alone (no other call of any   *)
(* process overlaps it)                                                    *)

LeaseFor == DefaultLeaseSeconds * Sub

\* time passes
Advance ==
    /\ clock < MaxClock
    /\ clock' = clock + 1
    /\ UNCHANGED <<guardVars, revertVars, onceVars, dirVars, planVars, procVars, watchVars, loopVars, tickVars, storeVars, raceVars, ret, enqueued, schedVars>>

\* Store.EnqueueUnique on a store that holds fewer than maxRows rows
EnqueueRows(jobType, scheduledAt, maxRows) ==
    LET scheduledAtStr == FormatRFC3339(scheduledAt)
        jobID == JobID(jobType, scheduledAt)
        existing == ExistingIDs(jobs, jobType, scheduledAtStr)
        pair == PairOf(jobType, scheduledAt)
        first == pair \notin enqueued
    IN  /\ IF existing # {}
              THEN \E existingID \in existing :
                      /\ ret' = EnqReturn("exists", existingID, pair, first)
                      /\ enqueued' = enqueued \cup {pair}
                      /\ jobs' = jobs
              ELSE IF InsertAllowed(jobs, jobID)
                      THEN /\ Cardinality(jobs) < maxRows
                           /\ jobs' = InsertJob(jobs, jobID, jobType, scheduledAtStr)
                           /\ ret' = EnqReturn("created", jobID, pair, first)
                           /\ enqueued' = enqueued \cup {pair}
                      ELSE /\ jobs' = jobs
                           /\ ret' = EnqReturn("error", jobID, pair, first)
                           /\ enqueued' = enqueued
        /\ UNCHANGED <<guardVars, revertVars, onceVars, dirVars, planVars, procVars, watchVars, loopVars, tickVars, clock, kv, raceVars, schedVars>>

EnqueueUnique(jobType, scheduledAt) == EnqueueRows(jobType, scheduledAt, MaxJobs)

ClaimNext(d) ==
    LET now == clock
        nowStr == FormatRFC3339(now)
        leaseExpiresAt == FormatRFC3339(now + LeaseFor)
        startedAt == FormatRFC3339(now)
    IN  /\ IF NextCandidates(jobs, nowStr) = {}
              THEN /\ jobs' = jobs
                   /\ ret' = ClaimReturn(d, "none", <<>>)
              ELSE \E r \in NextCandidates(jobs, nowStr) :
                      /\ jobs' = ClaimRow(jobs, r.id, startedAt, d, leaseExpiresAt)
                      /\ ret' = ClaimReturn(d, "job", r.id)
        /\ UNCHANGED <<guardVars, revertVars, onceVars, dirVars, planVars, procVars, watchVars, loopVars, tickVars, clock, kv, raceVars, enqueued, schedVars>>

Succeed(jobID) ==
    LET finishedAt == FormatRFC3339(clock)
    IN  /\ jobs' = FinishRow(jobs, jobID, "succeeded", finishedAt, "result")
        /\ ret' = FinishReturn("Succeed", jobID)
        /\ UNCHANGED <<guardVars, revertVars, onceVars, dirVars, planVars, procVars, watchVars, loopVars, tickVars, clock, kv, raceVars, enqueued, schedVars>>

Fail(jobID) ==
    LET finishedAt == FormatRFC3339(clock)
    IN  /\ jobs' = FinishRow(jobs, jobID, "failed", finishedAt, "error")
        /\ ret' = FinishReturn("Fail", jobID)
        /\ UNCHANGED <<guardVars, revertVars, onceVars, dirVars, planVars, procVars, watchVars, loopVars, tickVars, clock, kv, raceVars, enqueued, schedVars>>

Init ==
    /\ clock = 0
    /\ jobs = {}
    /\ kv = [k \in {} |-> EmptyString]
    /\ claimTx = [d \in Daemons |-> IdleTx]
    /\ enqCall = [p \in Procs |-> IdleTx]
    /\ ret = NoCall
    /\ enqueued = {}
    /\ location = 0
    /\ emitted = {}
    /\ coldMark = NULL
    /\ lastTick = NoCall
    /\ jumps = 0
    /\ tickTx = [s \in Schedulers |-> IdleTick]
    /\ fs = [p \in AllFiles |-> Absent]
    /\ lastWatch = NoCall
    /\ edits = 0
    /\ run = IdleRun
    /\ audit = <<>>
    /\ doc = NoDoc
    /\ verdict = NoVerdict
    /\ planRun = IdlePlan
    /\ itemDirs = [i \in Items |-> EmptyDir]
    /\ cancelled = FALSE
    /\ ticker = FALSE
    /\ lost = {}
    /\ dirRuns = [w \in Runners |-> NoDirRun]
    /\ runFiles = {}
    /\ invoked = <<>>
    /\ okrsTree = NoTree
    /\ guardCheck = NoCheck

Next ==
    \/ Advance
    \/ \E jobType \in JobTypes, scheduledAt \in 0..MaxSchedAt :
          EnqueueUnique(jobType, scheduledAt)
    \/ \E d \in Daemons : ClaimNext(d)
    \/ \E r \in jobs : Succeed(r.id)
    \/ \E r \in jobs : Fail(r.id)

Spec == Init /\ [][Next]_vars

----------------------------------------------------------------------------
(* Claims about the store's operations, each call running alone *)

\* C2 (Enqueue uniqueness): every (type, second) pair some EnqueueUnique call
\* returned for has exactly one row, no row exists beyond those, and a call
\* returns created=true exactly when it is the first for its pair; any other
\* call returns the id of the pair's one row and leaves the table alone.
C2_EnqueueUniqueness ==
    /\ \A pair \in enqueued : Cardinality(RowsOfPair(jobs, pair)) = 1
    /\ Cardinality(jobs) = Cardinality(enqueued)
    /\ ret.op = "EnqueueUnique" =>
          /\ ret.kind \in {"created", "exists"}
          /\ (ret.kind = "created") <=> ret.first
          /\ \E r \in RowsOfPair(jobs, ret.pair) : r.id = ret.id

\* a later call for an enqueued pair came back with the existing id while
\* the table holds rows of two pairs
C2_Witness ==
    /\ ret.op = "EnqueueUnique"
    /\ ret.kind = "exists"
    /\ ~ret.first
    /\ Cardinality(jobs) = 2

\* C4 (Claim-next order): a ClaimNext call returns the row whose
\* (scheduled_at, id) is lexicographically smallest among the queued rows
\* due at now, and returns none exactly when no row is queued and due.
C4_ClaimsSmallestKey ==
    [][\A d \in Daemons :
          ClaimNext(d) =>
            LET due == DueKeys(jobs, clock)
            IN  /\ (ret'.kind = "none") <=> (due = {})
                /\ ret'.kind = "job" =>
                      \E k \in due : /\ k[2] = ret'.id
                                     /\ \A o \in due : KeyLeq(k, o)]_vars

\* C5 (row invariants): a running row has started_at set, a non-empty
\* lease_owner and lease_expires_at = started_at + lease duration; a
\* succeeded or failed row has finished_at set.
C5_RowInvariants ==
    \A r \in jobs :
        /\ r.status = "running" =>
              /\ r.started_at # NULL
              /\ r.lease_owner # ""
              /\ r.lease_expires_at = r.started_at + DefaultLeaseSeconds
        /\ r.status \in TerminalStatuses => r.finished_at # NULL

\* one row is running while another, claimed earlier, is terminal
C5_Witness ==
    /\ \E r \in jobs : r.status = "running"
    /\ \E r \in jobs : r.status \in TerminalStatuses /\ r.started_at # NULL

\* C6 (terminal rows are never re-entered): once a row is succeeded or
\* failed, no later call changes its status, and the row stays in the table.
C6_TerminalRowsStay ==
    [][\A r \in jobs :
          r.status \in TerminalStatuses =>
            \E n \in jobs' : n.id = r.id /\ n.status = r.status]_vars

----------------------------------------------------------------------------
(* The store's operations as the statements they run, interleaved between  *)
(* processes.  Each process has its own connection to the SQLite file.     *)
(* ClaimNext runs in a transaction opened by db.Begin() (BEGIN DEFERRED):  *)
(* its SELECT takes the file's SHARED lock, its UPDATE the RESERVED lock,  *)
(* and COMMIT needs the EXCLUSIVE lock, which no reader may share; the     *)
(* locks are kept until the transaction ends.  Open configures no busy     *)
(* timeout, so a statement that cannot have its lock fails (SQLITE_BUSY).  *)
(* EnqueueUnique runs its SELECT and its INSERT outside any transaction,   *)
(* each on its own.                                                        *)

HoldsShared(d) == claimTx[d].pc \in {"selected", "updated"}
HoldsReserved(d) == claimTx[d].pc = "updated"

\* a write of connection c cannot commit while another connection is in a
\* transaction that has read or written
WriteBusy(c) == \E d \in Daemons \ {c} : HoldsShared(d)

\* a transaction cannot start writing while another holds RESERVED
ReserveBusy(c) == \E d \in Daemons \ {c} : HoldsReserved(d)

Returned(kind, id, due) == [pc |-> "returned", kind |-> kind, id |-> id, due |-> due]

\* EnqueueUnique, lines 125-141: the existence check
EnqCheck(p, jobType, scheduledAt) ==
    LET scheduledAtStr == FormatRFC3339(scheduledAt)
        existing == ExistingIDs(jobs, jobType, scheduledAtStr)
    IN  /\ enqCall[p].pc = "idle"
        /\ IF existing # {}
              THEN \E existingID \in existing :
                      enqCall' = [enqCall EXCEPT ![p] =
                          [pc |-> "returned", kind |-> "exists", id |-> existingID,
                           pair |-> PairOf(jobType, scheduledAt), raced |-> FALSE]]
              ELSE enqCall' = [enqCall EXCEPT ![p] =
                          [pc |-> "checked", type |-> jobType, at |-> scheduledAt]]
        /\ UNCHANGED <<guardVars, revertVars, onceVars, dirVars, planVars, procVars, watchVars, loopVars, tickVars, clock, storeVars, claimTx, ret, enqueued, schedVars>>

\* EnqueueUnique, lines 143-153: the insert
EnqInsert(p) ==
    LET jobType == enqCall[p].type
        scheduledAt == enqCall[p].at
        scheduledAtStr == FormatRFC3339(scheduledAt)
        jobID == JobID(jobType, scheduledAt)
        pair == PairOf(jobType, scheduledAt)
        raced == RowsOfPair(jobs, pair) # {}
        done(kind) == [enqCall EXCEPT ![p] =
                          [pc |-> "returned", kind |-> kind, id |-> jobID,
                           pair |-> pair, raced |-> raced]]
    IN  /\ enqCall[p].pc = "checked"
        /\ IF WriteBusy(p)
              THEN /\ enqCall' = done("error")
                   /\ jobs' = jobs
              ELSE IF ~InsertAllowed(jobs, jobID)
                      THEN /\ enqCall' = done("error")
                           /\ jobs' = jobs
                      ELSE /\ Cardinality(jobs) < MaxJobs
                           /\ jobs' = InsertJob(jobs, jobID, jobType, scheduledAtStr)
                           /\ enqCall' = done("created")
        /\ UNCHANGED <<guardVars, revertVars, onceVars, dirVars, planVars, procVars, watchVars, loopVars, tickVars, clock, kv, claimTx, ret, enqueued, schedVars>>

\* the caller takes the returned value and may call again
EnqReturnToCaller(p) ==
    /\ enqCall[p].pc = "returned"
    /\ enqCall' = [enqCall EXCEPT ![p] = IdleTx]
    /\ UNCHANGED <<guardVars, revertVars, onceVars, dirVars, planVars, procVars, watchVars, loopVars, tickVars, clock, storeVars, claimTx, ret, enqueued, schedVars>>

\* ClaimNext, lines 158-181: begin, and find the next queued job
ClaimSelect(d) ==
    LET now == clock
        nowStr == FormatRFC3339(now)
        due == DueKeys(jobs, now)
    IN  /\ claimTx[d].pc = "idle"
        /\ IF NextCandidates(jobs, nowStr) = {}
              THEN claimTx' = [claimTx EXCEPT ![d] = Returned("none", <<>>, due)]
              ELSE \E r \in NextCandidates(jobs, nowStr) :
                      claimTx' = [claimTx EXCEPT ![d] =
                          [pc |-> "selected", now |-> now, id |-> r.id, due |-> due]]
        /\ UNCHANGED <<guardVars, revertVars, onceVars, dirVars, planVars, procVars, watchVars, loopVars, tickVars, clock, storeVars, enqCall, ret, enqueued, schedVars>>

\* ClaimNext, lines 183-196: the UPDATE, held in the transaction
ClaimUpdate(d) ==
    /\ claimTx[d].pc = "selected"
    /\ IF ReserveBusy(d)
          THEN claimTx' = [claimTx EXCEPT ![d] =
                  Returned("error", claimTx[d].id, claimTx[d].due)]
          ELSE claimTx' = [claimTx EXCEPT ![d].pc = "updated"]
    /\ UNCHANGED <<guardVars, revertVars, onceVars, dirVars, planVars, procVars, watchVars, loopVars, tickVars, clock, storeVars, enqCall, ret, enqueued, schedVars>>

\* ClaimNext, lines 198-203: commit, and return the claimed row
ClaimCommit(d) ==
    LET now == claimTx[d].now
        startedAt == FormatRFC3339(now)
        leaseExpiresAt == FormatRFC3339(now + LeaseFor)
    IN  /\ claimTx[d].pc = "updated"
        /\ IF WriteBusy(d)
              THEN /\ claimTx' = [claimTx EXCEPT ![d] =
                          Returned("error", claimTx[d].id, claimTx[d].due)]
                   /\ jobs' = jobs
              ELSE /\ jobs' = ClaimRow(jobs, claimTx[d].id, startedAt, d, leaseExpiresAt)
                   /\ claimTx' = [claimTx EXCEPT ![d] =
                          Returned("job", claimTx[d].id, claimTx[d].due)]
        /\ UNCHANGED <<guardVars, revertVars, onceVars, dirVars, planVars, procVars, watchVars, loopVars, tickVars, clock, kv, enqCall, ret, enqueued, schedVars>>

\* the daemon takes the returned value and may call again
ClaimReturnToCaller(d) ==
    /\ claimTx[d].pc = "returned"
    /\ claimTx' = [claimTx EXCEPT ![d] = IdleTx]
    /\ UNCHANGED <<guardVars, revertVars, onceVars, dirVars, planVars, procVars, watchVars, loopVars, tickVars, clock, storeVars, enqCall, ret, enqueued, schedVars>>

RaceInit ==
    /\ clock \in 0..MaxClock
    /\ jobs = {}
    /\ kv = [k \in {} |-> EmptyString]
    /\ claimTx = [d \in Daemons |-> IdleTx]
    /\ enqCall = [p \in Procs |-> IdleTx]
    /\ ret = NoCall
    /\ enqueued = {}
    /\ location = 0
    /\ emitted = {}
    /\ coldMark = NULL
    /\ lastTick = NoCall
    /\ jumps = 0
    /\ tickTx = [s \in Schedulers |-> IdleTick]
    /\ fs = [p \in AllFiles |-> Absent]
    /\ lastWatch = NoCall
    /\ edits = 0
    /\ run = IdleRun
    /\ audit = <<>>
    /\ doc = NoDoc
    /\ verdict = NoVerdict
    /\ planRun = IdlePlan
    /\ itemDirs = [i \in Items |-> EmptyDir]
    /\ cancelled = FALSE
    /\ ticker = FALSE
    /\ lost = {}
    /\ dirRuns = [w \in Runners |-> NoDirRun]
    /\ runFiles = {}
    /\ invoked = <<>>
    /\ okrsTree = NoTree
    /\ guardCheck = NoCheck

RaceNext ==
    \/ \E p \in Procs, jobType \in JobTypes, scheduledAt \in 0..MaxSchedAt :
          EnqCheck(p, jobType, scheduledAt)
    \/ \E p \in Procs : EnqInsert(p)
    \/ \E p \in Procs : EnqReturnToCaller(p)
    \/ \E d \in Daemons : ClaimSelect(d)
    \/ \E d \in Daemons : ClaimUpdate(d)
    \/ \E d \in Daemons : ClaimCommit(d)
    \/ \E d \in Daemons : ClaimReturnToCaller(d)

RaceSpec == RaceInit /\ [][RaceNext]_vars

----------------------------------------------------------------------------
(* Claims about interleaved calls *)

ClaimReturnedJob(d) == claimTx[d].pc = "returned" /\ claimTx[d].kind = "job"

\* no row is handed to two ClaimNext calls that are both returned
NoRowReturnedTwice ==
    \A d, e \in Daemons :
        (d # e /\ ClaimReturnedJob(d) /\ ClaimReturnedJob(e)) =>
            claimTx[d].id # claimTx[e].id

\* C1 (Claim mutual exclusion): of two ClaimNext calls of distinct daemons,
\* interleaved in any order, no row is returned to both; each call returns
\* a row, recorded with its caller's lease_owner, or none; and when both
\* calls found the same single queued due row, one returns it and the other
\* returns none.
C1_ClaimMutualExclusion ==
    \A d, e \in Daemons :
        (d # e /\ claimTx[d].pc = "returned" /\ claimTx[e].pc = "returned") =>
            /\ ~(ClaimReturnedJob(d) /\ ClaimReturnedJob(e)
                    /\ claimTx[d].id = claimTx[e].id)
            /\ ClaimReturnedJob(d) =>
                  GetJob(jobs, claimTx[d].id).lease_owner = d
            /\ (claimTx[d].due = claimTx[e].due /\ Cardinality(claimTx[d].due) = 1) =>
                  /\ ClaimReturnedJob(d) # ClaimReturnedJob(e)
                  /\ {claimTx[d].kind, claimTx[e].kind} = {"job", "none"}

\* C3 (Enqueue-unique is atomic): of two EnqueueUnique calls for one
\* (type, scheduled_at) whose check and insert steps interleave, one inserts
\* and returns created=true; the call that finds the row inserted under it
\* returns that row's id with created=false and no error.
C3_EnqueueAtomic ==
    /\ \A p, q \in Procs :
          (p # q /\ enqCall[p].pc = "returned" /\ enqCall[q].pc = "returned"
               /\ enqCall[p].pair = enqCall[q].pair) =>
             ~(enqCall[p].kind = "created" /\ enqCall[q].kind = "created")
    /\ \A p \in Procs :
          (enqCall[p].pc = "returned" /\ enqCall[p].raced) =>
             /\ enqCall[p].kind = "exists"
             /\ \E r \in RowsOfPair(jobs, enqCall[p].pair) : r.id = enqCall[p].id

----------------------------------------------------------------------------
(* The scheduler *)

Second == Sub
Hour == 3600 * Second
Day == DayHours * Hour
WatchInterval == WatchIntervalSeconds * Second

WatermarkKey == "scheduler_watermark"

\* the zones a scheduler is built with, as UTC offsets in seconds:
\* America/Chicago in winter (the --tz default), UTC, Asia/Tokyo
Zones == {0 - 6 * 3600, 0, 9 * 3600}

\* t.Truncate(d): down to a multiple of d since Go's zero time, whatever
\* the location t carries
Truncate(t, d) == t - (t % d)

\* current.Year(), current.Month(), current.Day() in s.location, as the
\* number of the local day
LocalDate(t) == (t + location * Second) \div Day

\* t.Weekday() in s.location; day 0 of the model epoch is a Monday
Weekday(t) == (LocalDate(t) + Monday) % 7

\* time.Date(year, month, day, hour, minute, 0, 0, s.location)
DateInZone(day, hour, minute) ==
    day * Day + hour * Hour + minute * 60 * Second - location * Second

\* lastWatermark.IsZero(): no watermark has been stored
ColdStartBad(watermarkStr) == FALSE
ColdStart(watermarkStr) == watermarkStr = EmptyString

\* the value the first Tick stores: now.UTC().Format(time.RFC3339)
ColdWatermarkBad(now) == FormatRFC3339(now) - 60
ColdWatermark(now) == FormatRFC3339(now)

\* scheduleWatchTicks: start := lastWatermark.Truncate(interval).Add(interval)
WatchTickStartBad(lastWatermark) == Truncate(lastWatermark, WatchInterval)
WatchTickStart(lastWatermark) ==
    Truncate(lastWatermark, WatchInterval) + WatchInterval

\* scheduleWatchTicks: the instants its loop hands to EnqueueUnique,
\* for current := start; !current.After(now); current = current.Add(interval)
WatchTickTimes(lastWatermark, now) ==
    LET start == WatchTickStart(lastWatermark)
    IN  {start + k * WatchInterval : k \in 0..((now - start) \div WatchInterval)}

\* scheduleDailyAt: the instants its loop hands to EnqueueUnique
DailyTimes(lastWatermark, now, hour, minute) ==
    LET start == Truncate(lastWatermark, Day) + Day
        days == {start + k * Day : k \in 0..((now - start) \div Day)}
        scheduledTime(current) == DateInZone(LocalDate(current), hour, minute)
    IN  {scheduledTime(current) : current \in
            {c \in days : /\ scheduledTime(c) > lastWatermark
                          /\ scheduledTime(c) <= now}}

\* scheduleWeeklyAt: the first day from the watermark's on that is a
\* `weekday` in the zone
WeeklyStart(lastWatermark, weekday) ==
    LET start == Truncate(lastWatermark, Day)
        k == CHOOSE i \in 0..6 :
                /\ Weekday(start + i * Day) = weekday
                /\ \A j \in 0..(i - 1) : Weekday(start + j * Day) # weekday
    IN  start + k * Day

\* scheduleWeeklyAt: the instants its loop hands to EnqueueUnique
WeeklyTimes(lastWatermark, now, weekday, hour, minute) ==
    LET start == WeeklyStart(lastWatermark, weekday)
        days == {start + k * 7 * Day : k \in 0..((now - start) \div (7 * Day))}
        scheduledTime(current) == DateInZone(LocalDate(current), hour, minute)
    IN  {scheduledTime(current) : current \in
            {c \in days : /\ scheduledTime(c) > lastWatermark
                          /\ scheduledTime(c) <= now}}

\* the instants among `times` for which EnqueueUnique inserts a row
Created(J, jobType, times) ==
    {t \in times : ExistingIDs(J, jobType, FormatRFC3339(t)) = {}}

\* EnqueueUnique called for each instant of `times`
EnqueueAll(J, jobType, times) ==
    J \cup {NewRow(JobID(jobType, t), jobType, FormatRFC3339(t)) :
                t \in Created(J, jobType, times)}

\* the triggers of Tick, in the order Tick runs them
Triggers(lastWatermark, now) ==
    << <<"kr_measure", DailyTimes(lastWatermark, now, KrMeasureHour, KrMeasureMinute)>>,
       <<"plan_generate", WeeklyTimes(lastWatermark, now, Monday, PlanHour, PlanGenerateMinute)>>,
       <<"plan_execute", WeeklyTimes(lastWatermark, now, Monday, PlanHour, PlanExecuteMinute)>>,
       <<"watch_tick", WatchTickTimes(lastWatermark, now)>> >>

\* the table after the first n triggers have run
RECURSIVE AfterTriggers(_, _, _)
AfterTriggers(J, trig, n) ==
    IF n = 0 THEN J
    ELSE EnqueueAll(AfterTriggers(J, trig, n - 1), trig[n][1], trig[n][2])

\* <<type, second>> of the rows the triggers insert
CreatedBy(J, trig) ==
    UNION {{<<trig[n][1], FormatRFC3339(t)>> :
                t \in Created(AfterTriggers(J, trig, n - 1), trig[n][1], trig[n][2])} :
           n \in 1..Len(trig)}

\* <<type, instant>> the triggers hand to EnqueueUnique
EmittedBy(trig) ==
    UNION {{<<trig[n][1], t>> : t \in trig[n][2]} : n \in 1..Len(trig)}

\* what a Tick call saw and did; `again` says that the call before it was a
\* Tick with the same now
TickRecord(cold, watermarkStr, now, created) ==
    [op |-> "Tick", cold |-> cold, w |-> watermarkStr, now |-> now,
     created |-> created,
     again |-> (lastTick.op = "Tick" /\ lastTick.now = now)]

\* Scheduler.Tick(now) with now = time.Now(): what it does to the store
TickBody ==
    LET now == clock
        watermarkStr == GetKV(WatermarkKey)
        lastWatermark == ParseRFC3339(watermarkStr)
        trig == Triggers(lastWatermark, now)
        first == coldMark = NULL /\ lastTick.op = "none"
    IN  /\ IF ColdStart(watermarkStr)
              THEN /\ kv' = SetKV(WatermarkKey, ColdWatermark(now))
                   /\ jobs' = jobs
                   /\ emitted' = emitted
                   /\ lastTick' = TickRecord(watermarkStr = EmptyString,
                                             watermarkStr, now, {})
              ELSE /\ jobs' = AfterTriggers(jobs, trig, Len(trig))
                   /\ kv' = SetKV(WatermarkKey, FormatRFC3339(now))
                   /\ emitted' = emitted \cup EmittedBy(trig)
                   /\ lastTick' = TickRecord(watermarkStr = EmptyString,
                                             watermarkStr, now, CreatedBy(jobs, trig))
        /\ coldMark' = IF first THEN kv'[WatermarkKey] ELSE coldMark

\* Scheduler.Tick(now), called on its own
Tick ==
    /\ TickBody
    /\ UNCHANGED <<guardVars, revertVars, onceVars, dirVars, planVars, procVars, watchVars, loopVars, tickVars, clock, raceVars, ret, enqueued, location, jumps>>

\* the time between two looks at the clock: the smallest unit, one watch
\* interval, one hour
SchedSteps == {1, WatchInterval, Hour}

\* the instants a daemon is first started at: 07:00:00, 14:00:00, 23:00:00
\* and 23:00:10 UTC of day 0
SchedStarts == {7 * Hour, 14 * Hour, 23 * Hour, 23 * Hour + 10 * Second}

SchedAdvance(step) ==
    /\ jumps < MaxJumps
    /\ jumps' = jumps + 1
    /\ clock' = clock + step
    /\ UNCHANGED <<guardVars, revertVars, onceVars, dirVars, planVars, procVars, watchVars, loopVars, tickVars, storeVars, raceVars, ret, enqueued, location, emitted,
                   coldMark, lastTick>>

SchedInit ==
    /\ clock \in SchedStarts
    /\ location \in Zones
    /\ jobs = {}
    /\ kv = [k \in {} |-> EmptyString]
    /\ claimTx = [d \in Daemons |-> IdleTx]
    /\ enqCall = [p \in Procs |-> IdleTx]
    /\ ret = NoCall
    /\ enqueued = {}
    /\ emitted = {}
    /\ coldMark = NULL
    /\ lastTick = NoCall
    /\ jumps = 0
    /\ tickTx = [s \in Schedulers |-> IdleTick]
    /\ fs = [p \in AllFiles |-> Absent]
    /\ lastWatch = NoCall
    /\ edits = 0
    /\ run = IdleRun
    /\ audit = <<>>
    /\ doc = NoDoc
    /\ verdict = NoVerdict
    /\ planRun = IdlePlan
    /\ itemDirs = [i \in Items |-> EmptyDir]
    /\ cancelled = FALSE
    /\ ticker = FALSE
    /\ lost = {}
    /\ dirRuns = [w \in Runners |-> NoDirRun]
    /\ runFiles = {}
    /\ invoked = <<>>
    /\ okrsTree = NoTree
    /\ guardCheck = NoCheck

SchedNext ==
    \/ \E step \in SchedSteps : SchedAdvance(step)
    \/ Tick

SchedSpec == SchedInit /\ [][SchedNext]_vars

----------------------------------------------------------------------------
(* Claims about the scheduler *)

\* scheduled_at of the rows of a type
ScheduledOf(J, jobType) == {r.scheduled_at : r \in {x \in J : x.type = jobType}}

\* the seconds of the rows of a type the last Tick inserted
CreatedOf(jobType) == {c[2] : c \in {x \in lastTick.created : x[1] = jobType}}

C8_TickIdempotent ==
    [][(Tick /\ lastTick.op = "Tick" /\ lastTick.now = clock)
          => (jobs' = jobs /\ kv' = kv)]_vars

\* Tick has run twice in a row with one now, on a table that holds rows
C8_Witness ==
    /\ lastTick.op = "Tick" /\ lastTick.again
    /\ lastTick.now = clock
    /\ jobs # {}

\* the last Tick ran with a watermark T and now = T + k * 30 s, k >= 0
WholeIntervals ==
    /\ lastTick.op = "Tick" /\ ~lastTick.cold
    /\ lastTick.now >= ParseRFC3339(lastTick.w)
    /\ (lastTick.now - ParseRFC3339(lastTick.w)) % WatchInterval = 0

IntervalCount == (lastTick.now - ParseRFC3339(lastTick.w)) \div WatchInterval

\* the seconds that are on a 30-second boundary and lie in (T, T + k * 30 s]
BoundariesIn(T, k) ==
    {b * WatchIntervalSeconds :
        b \in ((T \div WatchIntervalSeconds) + 1)
              ..((T + k * WatchIntervalSeconds) \div WatchIntervalSeconds)}

\* the rows of the given type and seconds are there and queued
AllQueued(jobType, seconds) ==
    \A s \in seconds :
        \E r \in jobs : r.type = jobType /\ r.scheduled_at = s /\ r.status = "queued"

\* C9 as stated (30-second tick density): Tick with watermark T and
\* now = T + k * 30 s inserts exactly the k watch_tick rows scheduled at
\* T + 30 s, ..., T + k * 30 s, all queued.
C9_TicksFromWatermark ==
    WholeIntervals =>
        /\ CreatedOf("watch_tick") =
              {lastTick.w + i * WatchIntervalSeconds : i \in 1..IntervalCount}
        /\ AllQueued("watch_tick", CreatedOf("watch_tick"))

\* C9 as the code has it: Tick with watermark T and now = T + k * 30 s
\* inserts exactly k watch_tick rows, scheduled at the k 30-second
\* boundaries of the clock that lie in (T, now], all queued and 30 s apart;
\* they are T + 30 s, ..., T + k * 30 s when T is on a boundary itself.
C9_TicksOnBoundaries ==
    WholeIntervals =>
        /\ CreatedOf("watch_tick") = BoundariesIn(lastTick.w, IntervalCount)
        /\ Cardinality(CreatedOf("watch_tick")) = IntervalCount
        /\ AllQueued("watch_tick", CreatedOf("watch_tick"))
        /\ lastTick.w % WatchIntervalSeconds = 0 =>
              CreatedOf("watch_tick") =
                 {lastTick.w + i * WatchIntervalSeconds : i \in 1..IntervalCount}

\* a Tick two or more whole intervals after a watermark off the boundaries
C9_Witness ==
    /\ WholeIntervals
    /\ IntervalCount >= 2
    /\ lastTick.w % WatchIntervalSeconds # 0
    /\ CreatedOf("watch_tick") # {}

\* the seconds at which the zone's clock shows hour:minute, up to now
LocalTimes(hour, minute) ==
    {(DateInZone(d, hour, minute)) \div Sub : d \in (0 - 1)..((clock \div Day) + 1)}

\* C10 (daily calendar trigger): after the cold start and any sequence of
\* Ticks at increasing instants, the kr_measure rows are exactly the
\* instants at which the zone's clock shows 02:00 in
\* (cold-start watermark, latest now].
C10_DailyExactlyOnce ==
    (coldMark # NULL /\ lastTick.op = "Tick") =>
        ScheduledOf(jobs, "kr_measure") =
            {s \in LocalTimes(KrMeasureHour, KrMeasureMinute) :
                coldMark < s /\ s <= lastTick.now \div Sub}

\* the seconds at which the zone's calendar shows `weekday` and its clock
\* hour:minute, up to now
LocalWeeklyTimes(weekday, hour, minute) ==
    {s \in LocalTimes(hour, minute) : Weekday(s * Sub) = weekday}

\* C11 (weekly calendar trigger): after the cold start and any sequence of
\* Ticks at increasing instants, the plan_generate rows are exactly the
\* instants of (cold-start watermark, latest now] that are a Monday 09:00 in
\* the zone, and the plan_execute rows exactly those that are a Monday 09:15.
C11_WeeklyExactlyOnce ==
    (coldMark # NULL /\ lastTick.op = "Tick") =>
        /\ ScheduledOf(jobs, "plan_generate") =
              {s \in LocalWeeklyTimes(Monday, PlanHour, PlanGenerateMinute) :
                  coldMark < s /\ s <= lastTick.now \div Sub}
        /\ ScheduledOf(jobs, "plan_execute") =
              {s \in LocalWeeklyTimes(Monday, PlanHour, PlanExecuteMinute) :
                  coldMark < s /\ s <= lastTick.now \div Sub}

----------------------------------------------------------------------------
(* Two schedulers on one store.  A Tick is a sequence of statements: the
   read of the watermark, then for every instant of every trigger the
   SELECT and the INSERT of EnqueueUnique, then the write of the watermark.
   Statements of the two schedulers interleave; no statement holds a lock
   beyond itself. *)

\* the elements of a set of integers in ascending order
RECURSIVE SortedSeq(_)
SortedSeq(S) ==
    IF S = {} THEN <<>>
    ELSE LET m == CHOOSE x \in S : \A y \in S : x <= y
         IN  <<m>> \o SortedSeq(S \ {m})

\* the EnqueueUnique calls of the first n triggers, in the order Tick makes them
RECURSIVE CallsOf(_, _)
CallsOf(trig, n) ==
    IF n = 0 THEN <<>>
    ELSE LET times == SortedSeq(trig[n][2])
         IN  CallsOf(trig, n - 1) \o
             [i \in 1..Len(times) |-> <<trig[n][1], times[i]>>]

\* Tick: GetKV of the watermark, with now as the caller read it
TickRead(s) ==
    LET now == clock
        watermarkStr == GetKV(WatermarkKey)
        lastWatermark == ParseRFC3339(watermarkStr)
        trig == Triggers(lastWatermark, now)
    IN  /\ tickTx[s].pc = "idle"
        /\ tickTx' = [tickTx EXCEPT ![s] =
              IF ColdStart(watermarkStr)
                 THEN [pc |-> "cold", now |-> now, w |-> watermarkStr, todo |-> <<>>]
                 ELSE [pc |-> "enqueue", now |-> now, w |-> watermarkStr,
                       todo |-> CallsOf(trig, Len(trig))]]
        /\ UNCHANGED <<guardVars, revertVars, onceVars, dirVars, planVars, procVars, watchVars, loopVars, clock, storeVars, raceVars, ret, enqueued, schedVars>>

\* Tick: the SetKV of the first run, and the return
TickColdMark(s) ==
    /\ tickTx[s].pc = "cold"
    /\ kv' = SetKV(WatermarkKey, ColdWatermark(tickTx[s].now))
    /\ coldMark' = IF coldMark = NULL \/ kv'[WatermarkKey] < coldMark
                      THEN kv'[WatermarkKey] ELSE coldMark
    /\ tickTx' = [tickTx EXCEPT ![s] = TickDone("ok")]
    /\ UNCHANGED <<guardVars, revertVars, onceVars, dirVars, planVars, procVars, watchVars, loopVars, clock, jobs, raceVars, ret, enqueued, location, emitted,
                   lastTick, jumps>>

\* EnqueueUnique inside Tick: the SELECT; a row found ends the call
TickCheck(s) ==
    LET call == Head(tickTx[s].todo)
    IN  /\ tickTx[s].pc = "enqueue"
        /\ tickTx[s].todo # <<>>
        /\ tickTx' = [tickTx EXCEPT ![s] =
              IF ExistingIDs(jobs, call[1], FormatRFC3339(call[2])) = {}
                 THEN [@ EXCEPT !.pc = "insert"]
                 ELSE [@ EXCEPT !.todo = Tail(@)]]
        /\ emitted' = emitted \cup {call}
        /\ UNCHANGED <<guardVars, revertVars, onceVars, dirVars, planVars, procVars, watchVars, loopVars, clock, storeVars, raceVars, ret, enqueued, location,
                       coldMark, lastTick, jumps>>

\* EnqueueUnique inside Tick: the INSERT; its error ends Tick before the
\* watermark is written
TickInsert(s) ==
    LET call == Head(tickTx[s].todo)
        id == JobID(call[1], call[2])
    IN  /\ tickTx[s].pc = "insert"
        /\ IF InsertAllowed(jobs, id)
              THEN /\ jobs' = InsertJob(jobs, id, call[1], FormatRFC3339(call[2]))
                   /\ tickTx' = [tickTx EXCEPT ![s] =
                         [@ EXCEPT !.pc = "enqueue", !.todo = Tail(@)]]
              ELSE /\ jobs' = jobs
                   /\ tickTx' = [tickTx EXCEPT ![s] = TickDone("error")]
        /\ UNCHANGED <<guardVars, revertVars, onceVars, dirVars, planVars, procVars, watchVars, loopVars, clock, kv, raceVars, ret, enqueued, schedVars>>

\* Tick: the SetKV after the last trigger, and the return
TickMark(s) ==
    /\ tickTx[s].pc = "enqueue"
    /\ tickTx[s].todo = <<>>
    /\ kv' = SetKV(WatermarkKey, FormatRFC3339(tickTx[s].now))
    /\ tickTx' = [tickTx EXCEPT ![s] = TickDone("ok")]
    /\ UNCHANGED <<guardVars, revertVars, onceVars, dirVars, planVars, procVars, watchVars, loopVars, clock, jobs, raceVars, ret, enqueued, schedVars>>

\* time passes while two schedulers run
ConcAdvance ==
    /\ jumps < MaxConcJumps
    /\ jumps' = jumps + 1
    /\ clock' = clock + WatchInterval
    /\ UNCHANGED <<guardVars, revertVars, onceVars, dirVars, planVars, procVars, watchVars, loopVars, storeVars, raceVars, ret, enqueued, location, emitted,
                   coldMark, lastTick, tickVars>>

\* the schedulers are started half a minute before Monday 09:00 UTC
ConcInit ==
    /\ clock = 9 * Hour - WatchInterval
    /\ location \in Zones
    /\ jobs = {}
    /\ kv = [k \in {} |-> EmptyString]
    /\ claimTx = [d \in Daemons |-> IdleTx]
    /\ enqCall = [p \in Procs |-> IdleTx]
    /\ ret = NoCall
    /\ enqueued = {}
    /\ emitted = {}
    /\ coldMark = NULL
    /\ lastTick = NoCall
    /\ jumps = 0
    /\ tickTx = [s \in Schedulers |-> IdleTick]
    /\ fs = [p \in AllFiles |-> Absent]
    /\ lastWatch = NoCall
    /\ edits = 0
    /\ run = IdleRun
    /\ audit = <<>>
    /\ doc = NoDoc
    /\ verdict = NoVerdict
    /\ planRun = IdlePlan
    /\ itemDirs = [i \in Items |-> EmptyDir]
    /\ cancelled = FALSE
    /\ ticker = FALSE
    /\ lost = {}
    /\ dirRuns = [w \in Runners |-> NoDirRun]
    /\ runFiles = {}
    /\ invoked = <<>>
    /\ okrsTree = NoTree
    /\ guardCheck = NoCheck

ConcNext ==
    \/ ConcAdvance
    \/ \E s \in Schedulers :
          \/ TickRead(s)
          \/ TickColdMark(s)
          \/ TickCheck(s)
          \/ TickInsert(s)
          \/ TickMark(s)

ConcSpec == ConcInit /\ [][ConcNext]_vars

\* no two rows of one (type, scheduled_at) pair
NoDuplicateRows ==
    \A r1 \in jobs : \A r2 \in jobs :
        (r1.type = r2.type /\ r1.scheduled_at = r2.scheduled_at) => r1 = r2

\* when no Tick is in progress, a watch_tick row is there for every
\* 30-second boundary between the first watermark and the stored one
NoBoundarySkipped ==
    (coldMark # NULL /\ \A s \in Schedulers : tickTx[s].pc = "idle") =>
        \A b \in (coldMark \div WatchIntervalSeconds + 1)
                 ..(GetKV(WatermarkKey) \div WatchIntervalSeconds) :
            b * WatchIntervalSeconds \in ScheduledOf(jobs, "watch_tick")

\* no Tick has ended in an error
NoTickError ==
    \A s \in Schedulers : tickTx[s].pc = "idle" => tickTx[s].result # "error"

\* C12 (concurrent schedulers converge): with the statements of two
\* schedulers' Ticks interleaved, no (type, scheduled_at) pair gets two
\* rows, no firing time is skipped, and no Tick ends in an error.
C12_SchedulersConverge ==
    /\ NoDuplicateRows
    /\ NoBoundarySkipped
    /\ NoTickError

----------------------------------------------------------------------------
(* A Tick that fails.  Store.EnqueueUnique can return an error (the
   database is locked by another connection, the disk is full); Tick then
   returns at once, having made the calls before the failing one. *)

\* the watermark a failed Tick leaves: the return precedes the SetKV
FailedWatermarkBad(watermarkStr, now) == FormatRFC3339(now)
FailedWatermark(watermarkStr, now) == watermarkStr

\* the instants at which a failure is tried: the first and the last call
\* of a trigger
FailPoints(times) ==
    {t \in times : (\A u \in times : t <= u) \/ (\A u \in times : u <= t)}

\* Scheduler.Tick(now) whose EnqueueUnique call of trigger n for instant
\* failAt returns an error
TickFail(n, failAt) ==
    LET now == clock
        watermarkStr == GetKV(WatermarkKey)
        lastWatermark == ParseRFC3339(watermarkStr)
        trig == Triggers(lastWatermark, now)
        before == AfterTriggers(jobs, trig, n - 1)
        done == {t \in trig[n][2] : t < failAt}
    IN  /\ ~ColdStart(watermarkStr)
        /\ failAt \in FailPoints(trig[n][2])
        /\ jobs' = EnqueueAll(before, trig[n][1], done)
        /\ kv' = SetKV(WatermarkKey, FailedWatermark(watermarkStr, now))
        /\ emitted' = emitted \cup EmittedBy(SubSeq(trig, 1, n - 1))
                              \cup {<<trig[n][1], t>> : t \in done \cup {failAt}}
        /\ lastTick' = [op |-> "TickFailed", cold |-> FALSE, w |-> watermarkStr,
                        now |-> now, again |-> FALSE,
                        created |-> {<<r.type, r.scheduled_at>> : r \in jobs' \ jobs}]
        /\ UNCHANGED <<guardVars, revertVars, onceVars, dirVars, planVars, procVars, watchVars, loopVars, tickVars, clock, raceVars, ret, enqueued, location,
                       coldMark, jumps>>

\* the calls of a Tick made now at which a failure is tried
FailCalls ==
    LET trig == Triggers(ParseRFC3339(GetKV(WatermarkKey)), clock)
    IN  UNION {{<<n, t>> : t \in FailPoints(trig[n][2])} : n \in 1..Len(trig)}

\* the time between two looks at the clock: the smallest unit, one watch
\* interval
RetrySteps == {1, WatchInterval}

RetryNext ==
    \/ \E step \in RetrySteps : SchedAdvance(step)
    \/ Tick
    \/ \E f \in FailCalls : TickFail(f[1], f[2])

\* the scheduler is started half a minute before Monday 09:00 UTC
RetrySpec == ConcInit /\ [][RetryNext]_vars

\* <<type, scheduled_at>> of the rows
PairsOf(J) == {<<r.type, r.scheduled_at>> : r \in J}

\* C13 (scheduler failure is retried without loss or duplication): a Tick
\* that fails while enqueuing leaves the watermark as it was; after the next
\* Tick that succeeds every instant handed to EnqueueUnique so far, the one
\* of the failed call included, has its row, there is a watch_tick row for
\* every 30-second boundary in (first watermark, now], and no
\* (type, scheduled_at) pair ever has two rows.
C13_FailedTickRetried ==
    /\ lastTick.op = "TickFailed" => GetKV(WatermarkKey) = lastTick.w
    /\ NoDuplicateRows
    /\ (lastTick.op = "Tick" /\ ~lastTick.cold) =>
          /\ PairsOf(jobs) = {<<e[1], FormatRFC3339(e[2])>> : e \in emitted}
          /\ ScheduledOf(jobs, "watch_tick") =
                {b * WatchIntervalSeconds :
                    b \in (coldMark \div WatchIntervalSeconds + 1)
                          ..(GetKV(WatermarkKey) \div WatchIntervalSeconds)}

\* a Tick has succeeded for a window of which an earlier, failed Tick had
\* enqueued a part
C13_Witness ==
    /\ lastTick.op = "Tick" /\ ~lastTick.cold
    /\ lastTick.created # {}
    /\ \E e \in EmittedBy(Triggers(ParseRFC3339(lastTick.w), lastTick.now)) :
          <<e[1], FormatRFC3339(e[2])>> \notin lastTick.created

----------------------------------------------------------------------------
(* The watcher: the watch_tick handler and the files it polls *)

OkrsKey == "watch_okrs_dir_state"
ManualKey == "watch_manual_yml"
PlansKey == "watch_plans_dir_state"

\* SetKV on a given table
PutKV(KV, key, value) ==
    [k \in DOMAIN KV \cup {key} |-> IF k = key THEN value ELSE KV[k]]

\* EnqueueUnique on a given table, with a payload
EnqueueWithBad(J, jobType, t, payload) == J
EnqueueWith(J, jobType, t, payload) ==
    IF ExistingIDs(J, jobType, FormatRFC3339(t)) = {}
       THEN J \cup {[NewRow(JobID(jobType, t), jobType, FormatRFC3339(t))
                        EXCEPT !.payload_json = payload]}
       ELSE J

\* watchDirectory: the files filepath.Walk finds, path -> WatchState
CurrentFiles(FS, files) == [p \in {f \in files : FS[f].hash # 0} |-> FS[p]]

\* watchDirectory: the state of the previous call; none stored is an empty map
PrevFiles(KV, stateKey) ==
    IF stateKey \in DOMAIN KV THEN KV[stateKey] ELSE [p \in {} |-> Absent]

\* watchDirectory: changedFiles, new or modified files and deleted ones
ChangedFilesBad(KV, FS, files, stateKey) ==
    LET cur == CurrentFiles(FS, files)
        prev == PrevFiles(KV, stateKey)
    IN  {[path |-> p, deleted |-> FALSE] : p \in DOMAIN cur \ DOMAIN prev}
        \cup {[path |-> p, deleted |-> TRUE] : p \in DOMAIN prev \ DOMAIN cur}
ChangedFiles(KV, FS, files, stateKey) ==
    LET cur == CurrentFiles(FS, files)
        prev == PrevFiles(KV, stateKey)
    IN  {[path |-> p, deleted |-> FALSE] :
            p \in {q \in DOMAIN cur :
                      q \notin DOMAIN prev \/ prev[q].hash # cur[q].hash}}
        \cup {[path |-> p, deleted |-> TRUE] : p \in DOMAIN prev \ DOMAIN cur}

\* watchDirectory: the state it saves
DirStateBad(KV, FS, files, stateKey) == KV
DirState(KV, FS, files, stateKey) ==
    PutKV(KV, stateKey, CurrentFiles(FS, files))

\* watchFile: a file that is gone has changed when a state is stored; a
\* file that is there has changed when its hash is not the stored one
FileChanged(KV, FS, path, key) ==
    IF FS[path].hash = 0
       THEN key \in DOMAIN KV
       ELSE (IF key \in DOMAIN KV THEN KV[key].hash ELSE 0) # FS[path].hash

\* watchFile: the state is saved only when the file is there
FileState(KV, FS, path, key) ==
    IF FS[path].hash = 0 THEN KV ELSE PutKV(KV, key, FS[path])

\* filepath.Base(planFile) == "plan.json"; a deleted file is listed as
\* path + " (deleted)"
BaseIsPlanJSONBad(change) == ~change.deleted
BaseIsPlanJSON(change) == ~change.deleted /\ change.path \in PlanFiles

\* the orders in which a range over a map can visit the paths
Orders(S) ==
    {seq \in UNION {[1..n -> S] : n \in {Cardinality(S)}} :
        \A i \in 1..Len(seq) : \A j \in 1..Len(seq) : seq[i] = seq[j] => i = j}

\* the plan_execute calls for the plan files, in the order given
RECURSIVE EnqueuePlans(_, _, _)
EnqueuePlans(J, order, now) ==
    IF order = <<>> THEN J
    ELSE EnqueuePlans(
            EnqueueWith(J, "plan_execute", now,
                        Payload("new_plan_generated", {}, Head(order))),
            Tail(order), now)

\* the three watches of handleWatchTick, each on the tables the one before left
OkrsChanges == ChangedFiles(kv, fs, OkrsFiles, OkrsKey)
KVAfterOkrs == DirState(kv, fs, OkrsFiles, OkrsKey)
JobsAfterOkrs(now) ==
    IF OkrsChanges = {} THEN jobs
    ELSE EnqueueWith(
            EnqueueWith(jobs, "kr_measure", now,
                        Payload("okrs_changed", OkrsChanges, "")),
            "plan_generate", now, Payload("okrs_changed", OkrsChanges, ""))

ManualChanged == FileChanged(KVAfterOkrs, fs, ManualFile, ManualKey)
KVAfterManual == FileState(KVAfterOkrs, fs, ManualFile, ManualKey)
JobsAfterManual(now) ==
    IF ManualChanged
       THEN EnqueueWith(JobsAfterOkrs(now), "kr_measure", now,
                        Payload("manual_yml_changed", {}, ""))
       ELSE JobsAfterOkrs(now)

PlansChanges == ChangedFiles(KVAfterManual, fs, PlansDirFiles, PlansKey)
KVAfterPlans == DirState(KVAfterManual, fs, PlansDirFiles, PlansKey)
NewPlanFiles == {c.path : c \in {x \in PlansChanges : BaseIsPlanJSON(x)}}

\* result["status"]
WatchStatus ==
    IF OkrsChanges # {} \/ ManualChanged \/ PlansChanges # {}
       THEN "changes_detected" ELSE "no_changes"

\* what a run of the handler saw and did.  `prior` says that there was a
\* run before it, `since` are the changes of content made after that run,
\* `priorEdits` the number of changes made before it; `manualGone` says
\* that manual.yml is absent and has a stored state
WatchRecord(now, created, status) ==
    [op |-> "watch", now |-> now, status |-> status,
     okrs |-> OkrsChanges, manual |-> ManualChanged, plans |-> NewPlanFiles,
     created |-> created,
     prior |-> lastWatch.op = "watch", since |-> lastWatch.mutated,
     edits |-> edits, priorEdits |-> lastWatch.edits,
     manualGone |-> (fs[ManualFile].hash = 0 /\ ManualKey \in DOMAIN kv),
     mutated |-> <<>>]

\* handleWatchTick, run to its end with now = time.Now()
HandleWatchTick(order) ==
    LET now == clock
    IN  /\ order \in Orders(NewPlanFiles)
        /\ jobs' = EnqueuePlans(JobsAfterManual(now), order, now)
        /\ kv' = KVAfterPlans
        /\ lastWatch' = WatchRecord(now, jobs' \ jobs, WatchStatus)
        /\ UNCHANGED <<guardVars, revertVars, onceVars, dirVars, planVars, procVars, clock, raceVars, ret, enqueued, schedVars, tickVars,
                       fs, edits, loopVars>>

\* a file is written with a content it did not have
WriteFile(path, hash, mtime) ==
    /\ edits < MaxEdits
    /\ fs[path].hash # hash
    /\ fs' = [fs EXCEPT ![path] = File(hash, mtime)]
    /\ edits' = edits + 1
    /\ lastWatch' = [lastWatch EXCEPT !.mutated =
                        Append(@, [path |-> path, kind |-> "write"])]
    /\ UNCHANGED <<guardVars, revertVars, onceVars, dirVars, planVars, procVars, clock, storeVars, raceVars, ret, enqueued, schedVars,
                   tickVars, loopVars>>

\* a file gets another modification time, its content stays
TouchFile(path) ==
    /\ edits < MaxEdits
    /\ fs[path].hash # 0
    /\ fs' = [fs EXCEPT ![path] = File(@.hash, 1 - @.mtime)]
    /\ edits' = edits + 1
    /\ UNCHANGED <<guardVars, revertVars, onceVars, dirVars, planVars, procVars, clock, storeVars, raceVars, ret, enqueued, schedVars,
                   tickVars, lastWatch, loopVars>>

\* a file is removed
DeleteFile(path) ==
    /\ edits < MaxEdits
    /\ fs[path].hash # 0
    /\ fs' = [fs EXCEPT ![path] = Absent]
    /\ edits' = edits + 1
    /\ lastWatch' = [lastWatch EXCEPT !.mutated =
                        Append(@, [path |-> path, kind |-> "delete"])]
    /\ UNCHANGED <<guardVars, revertVars, onceVars, dirVars, planVars, procVars, clock, storeVars, raceVars, ret, enqueued, schedVars,
                   tickVars, loopVars>>

\* time passes between two runs of the handler
WatchAdvance ==
    /\ jumps < MaxWatchJumps
    /\ jumps' = jumps + 1
    /\ clock' = clock + 1
    /\ UNCHANGED <<guardVars, revertVars, onceVars, dirVars, planVars, procVars, storeVars, raceVars, ret, enqueued, location, emitted,
                   coldMark, lastTick, tickVars, watchVars, loopVars>>

\* an empty workspace and an empty store
WatchInit ==
    /\ clock = 0
    /\ location = 0
    /\ jobs = {}
    /\ kv = [k \in {} |-> EmptyString]
    /\ claimTx = [d \in Daemons |-> IdleTx]
    /\ enqCall = [p \in Procs |-> IdleTx]
    /\ ret = NoCall
    /\ enqueued = {}
    /\ emitted = {}
    /\ coldMark = NULL
    /\ lastTick = NoCall
    /\ jumps = 0
    /\ tickTx = [s \in Schedulers |-> IdleTick]
    /\ fs = [p \in AllFiles |-> Absent]
    /\ lastWatch = [op |-> "none", mutated |-> <<>>, edits |-> 0]
    /\ edits = 0
    /\ run = IdleRun
    /\ audit = <<>>
    /\ doc = NoDoc
    /\ verdict = NoVerdict
    /\ planRun = IdlePlan
    /\ itemDirs = [i \in Items |-> EmptyDir]
    /\ cancelled = FALSE
    /\ ticker = FALSE
    /\ lost = {}
    /\ dirRuns = [w \in Runners |-> NoDirRun]
    /\ runFiles = {}
    /\ invoked = <<>>
    /\ okrsTree = NoTree
    /\ guardCheck = NoCheck

WatchNext ==
    \/ WatchAdvance
    \/ \E path \in WatchedFiles :
          \/ \E hash \in Contents : \E mtime \in MTimes : WriteFile(path, hash, mtime)
          \/ TouchFile(path)
          \/ DeleteFile(path)
    \/ \E order \in Orders(NewPlanFiles) : HandleWatchTick(order)

WatchSpec == WatchInit /\ [][WatchNext]_vars

----------------------------------------------------------------------------
(* Claims about the watcher *)

\* a run of the handler that followed another run
SecondRun == lastWatch.op = "watch" /\ lastWatch.prior

\* C14 (watch silence): a run of the watch_tick handler that follows another
\* run with no change of any watched file's content in between inserts no
\* job and reports no_changes, whatever happened to modification times and
\* whichever files exist.
C14_WatchSilence ==
    (SecondRun /\ lastWatch.since = <<>>) =>
        /\ lastWatch.created = {}
        /\ lastWatch.status = "no_changes"

\* the follow-up job types configured for a change of a watched file
FollowUps(change) ==
    IF change.path \in OkrsFiles THEN {"kr_measure", "plan_generate"}
    ELSE IF change.path = ManualFile THEN {"kr_measure"}
    ELSE IF change.kind = "write" THEN {"plan_execute"}
    ELSE {}

\* after a run that followed exactly one change of content, a queued job of
\* every follow-up type of that change is scheduled at the second of the
\* run; a plan_execute job names the changed plan file
FollowUpsPresent ==
    (SecondRun /\ Len(lastWatch.since) = 1 /\ lastWatch.mutated = <<>>) =>
        \A jobType \in FollowUps(lastWatch.since[1]) :
            \E r \in jobs :
                /\ r.type = jobType
                /\ r.status = "queued"
                /\ r.scheduled_at = FormatRFC3339(lastWatch.now)
                /\ jobType = "plan_execute" =>
                      r.payload_json.plan_path = lastWatch.since[1].path

\* a run that followed a run with no change in between inserts no job
QuietRunsInsertNothing ==
    (SecondRun /\ lastWatch.since = <<>>) => lastWatch.created = {}

\* C15 (watch fidelity): a single change of the content of a watched file
\* between two runs of the handler makes the next run enqueue the follow-up
\* jobs of the file's location, and only that run: a later run with no
\* further change enqueues nothing.
C15_WatchFidelity ==
    /\ FollowUpsPresent
    /\ QuietRunsInsertNothing

\* the rows of a type among a set of rows
RowsOfType(J, jobType) == {r \in J : r.type = jobType}

\* C16 (fan-out for the document directory): a run on a workspace that never
\* held a file reports no_changes and inserts nothing; the run after it that
\* finds a change, an addition or a deletion under okrs/ inserts one
\* kr_measure and one plan_generate job whose payload lists the changes; a
\* run repeated with no change in between inserts no job of either type.
C16_OkrsFanOut ==
    /\ (lastWatch.op = "watch" /\ lastWatch.edits = 0) =>
          (lastWatch.status = "no_changes" /\ lastWatch.created = {})
    /\ (SecondRun /\ lastWatch.priorEdits = 0 /\ lastWatch.okrs # {}) =>
          \A jobType \in {"kr_measure", "plan_generate"} :
              /\ Cardinality(RowsOfType(lastWatch.created, jobType)) = 1
              /\ \A r \in RowsOfType(lastWatch.created, jobType) :
                    /\ r.status = "queued"
                    /\ r.scheduled_at = FormatRFC3339(lastWatch.now)
                    /\ r.payload_json.files = lastWatch.okrs
    /\ (SecondRun /\ lastWatch.since = <<>> /\ ~lastWatch.manualGone) =>
          \A jobType \in {"kr_measure", "plan_generate"} :
              RowsOfType(lastWatch.created, jobType) = {}

\* the run after the fan-out has been repeated with nothing changed
C16_Witness ==
    /\ SecondRun /\ lastWatch.since = <<>> /\ ~lastWatch.manualGone
    /\ lastWatch.created = {}
    /\ \E r \in jobs : r.type = "kr_measure" /\ r.payload_json.trigger = "okrs_changed"
    /\ \E r \in jobs : r.type = "plan_generate" /\ r.payload_json.trigger = "okrs_changed"

\* C17 (plan emission): after a run of the handler, every new plan.json
\* file the run discovered has a plan_execute job whose payload plan_path
\* names it.
C17_PlanEmission ==
    lastWatch.op = "watch" =>
        \A path \in lastWatch.plans :
            \E r \in jobs : r.type = "plan_execute" /\ r.payload_json.plan_path = path

----------------------------------------------------------------------------
(* The daemon loop: claimAndExecute in its steps.  Jobs come from the
   watcher's follow-ups and from `daemon enqueue`; the files of the
   workspace change while the loop runs. *)

\* DefaultHandlers()
Handlers == {"kr_measure", "plan_generate", "plan_execute", "watch_tick"}

\* the types jobs are enqueued with from outside; "custom" has no handler
DaemonJobTypes == {"watch_tick", "kr_measure", "custom"}

\* the daemon's lease owner
LoopOwner == "daemon-a"

\* fmt.Errorf("no handler for job type: %s", job.Type)
NoHandlerError(jobType) ==
    CASE jobType = "custom" -> "no handler for job type: custom"
      [] jobType = "kr_measure" -> "no handler for job type: kr_measure"
      [] jobType = "plan_generate" -> "no handler for job type: plan_generate"
      [] jobType = "plan_execute" -> "no handler for job type: plan_execute"
      [] OTHER -> "no handler for job type: watch_tick"

\* the error a handler returns
HandlerError == "handler failed"

\* Store.Fail: json.Marshal(map[string]string{"error": jobErr.Error()})
ErrorJSON(msg) ==
    CASE msg = "no handler for job type: custom" ->
            "{\"error\":\"no handler for job type: custom\"}"
      [] msg = "no handler for job type: kr_measure" ->
            "{\"error\":\"no handler for job type: kr_measure\"}"
      [] msg = "no handler for job type: plan_generate" ->
            "{\"error\":\"no handler for job type: plan_generate\"}"
      [] msg = "no handler for job type: plan_execute" ->
            "{\"error\":\"no handler for job type: plan_execute\"}"
      [] msg = "no handler for job type: watch_tick" ->
            "{\"error\":\"no handler for job type: watch_tick\"}"
      [] msg = "run plan: ensure item dir" ->
            "{\"error\":\"run plan: ensure item dir\"}"
      [] msg = "run plan: write prompt" ->
            "{\"error\":\"run plan: write prompt\"}"
      [] msg = "run plan: agent run failed for item (see transcript.log)" ->
            "{\"error\":\"run plan: agent run failed for item (see transcript.log)\"}"
      [] msg = "run plan: agent run failed for item" ->
            "{\"error\":\"run plan: agent run failed for item\"}"
      [] msg = "run plan: agent result invalid for item" ->
            "{\"error\":\"run plan: agent result invalid for item\"}"
      [] msg = "run plan: audit log failed" ->
            "{\"error\":\"run plan: audit log failed\"}"
      [] OTHER -> "{\"error\":\"handler failed\"}"

\* AuditLogger.LogEvent("daemon", eventType, payload)
AuditEvent(eventType, job, err) == [type |-> eventType, job |-> job, error |-> err]

\* claimAndExecute returns the error to Run, which prints it and waits for
\* the next poll
FailedRunBad(job, jobType, err) == Run("stopped", job, jobType, err)
FailedRun(job, jobType, err) == Run("idle", job, jobType, err)

\* claimAndExecute: ClaimNext and the job_started event
LoopClaim ==
    LET now == clock
        nowStr == FormatRFC3339(now)
        leaseExpiresAt == FormatRFC3339(now + LeaseFor)
    IN  /\ run.pc = "idle"
        /\ \E r \in NextCandidates(jobs, nowStr) :
              /\ jobs' = ClaimRow(jobs, r.id, nowStr, LoopOwner, leaseExpiresAt)
              /\ audit' = Append(audit, AuditEvent("job_started", r.id, ""))
              /\ run' = Run("started", r.id, r.type, "")
        /\ UNCHANGED <<guardVars, revertVars, onceVars, dirVars, planVars, procVars, clock, kv, raceVars, ret, enqueued, schedVars, tickVars,
                       watchVars>>

\* claimAndExecute: a type without a handler is failed at once
LoopNoHandler ==
    LET err == NoHandlerError(run.type)
    IN  /\ run.pc = "started"
        /\ run.type \notin Handlers
        /\ jobs' = FinishRow(jobs, run.job, "failed", FormatRFC3339(clock),
                             ErrorJSON(err))
        /\ audit' = Append(audit, AuditEvent("job_failed", run.job, err))
        /\ run' = FailedRun(run.job, run.type, err)
        /\ UNCHANGED <<guardVars, revertVars, onceVars, dirVars, planVars, procVars, clock, kv, raceVars, ret, enqueued, schedVars, tickVars,
                       watchVars>>

\* claimAndExecute: the handler of a watch_tick job runs
LoopWatchTick(order) ==
    LET now == clock
    IN  /\ run.pc = "started"
        /\ run.type = "watch_tick"
        /\ order \in Orders(NewPlanFiles)
        /\ jobs' = EnqueuePlans(JobsAfterManual(now), order, now)
        /\ kv' = KVAfterPlans
        /\ lastWatch' = WatchRecord(now, jobs' \ jobs, WatchStatus)
        /\ run' = [run EXCEPT !.pc = "handled"]
        /\ UNCHANGED <<guardVars, revertVars, onceVars, dirVars, planVars, procVars, clock, raceVars, ret, enqueued, schedVars, tickVars,
                       fs, edits, audit>>

\* claimAndExecute: the handler of another job runs and returns a result
\* or an error
LoopHandler(err) ==
    /\ run.pc = "started"
    /\ run.type \in Handlers \ {"watch_tick"}
    /\ run' = [run EXCEPT !.pc = "handled", !.err = err]
    /\ UNCHANGED <<guardVars, revertVars, onceVars, dirVars, planVars, procVars, clock, storeVars, raceVars, ret, enqueued, schedVars,
                   tickVars, watchVars, audit>>

\* claimAndExecute: Fail and job_failed after an error, Succeed and
\* job_succeeded otherwise
LoopFinish ==
    /\ run.pc = "handled"
    /\ IF run.err # ""
          THEN /\ jobs' = FinishRow(jobs, run.job, "failed",
                                    FormatRFC3339(clock), ErrorJSON(run.err))
               /\ audit' = Append(audit, AuditEvent("job_failed", run.job, run.err))
               /\ run' = FailedRun(run.job, run.type, run.err)
          ELSE /\ jobs' = FinishRow(jobs, run.job, "succeeded",
                                    FormatRFC3339(clock), "result")
               /\ audit' = Append(audit, AuditEvent("job_succeeded", run.job, ""))
               /\ run' = Run("idle", run.job, run.type, "")
    /\ UNCHANGED <<guardVars, revertVars, onceVars, dirVars, planVars, procVars, clock, kv, raceVars, ret, enqueued, schedVars, tickVars,
                   watchVars>>

\* the loop runs within one second; files are created while it runs
DaemonNext ==
    \/ \E jobType \in DaemonJobTypes : EnqueueUnique(jobType, clock)
    \/ \E path \in WatchedFiles : WriteFile(path, 1, 0)
    \/ LoopClaim
    \/ LoopNoHandler
    \/ \E order \in Orders(NewPlanFiles) : LoopWatchTick(order)
    \/ \E err \in {"", HandlerError} : LoopHandler(err)
    \/ LoopFinish

\* a daemon on an empty workspace and an empty store
DaemonSpec == WatchInit /\ [][DaemonNext]_vars

----------------------------------------------------------------------------
(* Claims about the daemon loop *)

\* the (type, second) pairs the last run of the watch_tick handler called
\* EnqueueUnique for
FollowUpCalls ==
    LET second == FormatRFC3339(lastWatch.now)
    IN  (IF lastWatch.okrs # {} \/ lastWatch.manual
            THEN {<<"kr_measure", second>>} ELSE {})
        \cup (IF lastWatch.okrs # {} THEN {<<"plan_generate", second>>} ELSE {})
        \cup (IF lastWatch.plans # {} THEN {<<"plan_execute", second>>} ELSE {})

\* the loop holds a watch_tick job whose handler has run
WatchTickHandled ==
    /\ run.type = "watch_tick"
    /\ run.pc \in {"handled", "idle"}
    /\ lastWatch.op = "watch"

\* C18 (follow-up visibility ordering): when the handler of a watch_tick job
\* has returned and the job's row is still running, every follow-up the
\* handler enqueued has its row, and the rows it inserted are queued; when
\* the watch_tick row is succeeded, no follow-up row is missing.
C18_FollowUpsBeforeSuccess ==
    WatchTickHandled =>
        /\ run.pc = "handled" =>
              /\ GetJob(jobs, run.job).status = "running"
              /\ \A r \in lastWatch.created : r \in jobs /\ r.status = "queued"
        /\ \A call \in FollowUpCalls : RowsOfPair(jobs, call) # {}
        /\ \A r \in lastWatch.created : \E q \in jobs : q.id = r.id

\* a watch_tick job that enqueued follow-ups is succeeded
C18_Witness ==
    /\ WatchTickHandled
    /\ run.pc = "idle"
    /\ GetJob(jobs, run.job).status = "succeeded"
    /\ lastWatch.created # {}

----------------------------------------------------------------------------
(* A watch tick that fails.  watchDirectory, watchFile and EnqueueUnique
   can return an error (a file cannot be read, the database is locked);
   handleWatchTick returns it at once. *)

Locations == {"okrs", "manual", "plans"}

\* the steps of handleWatchTick that can return an error, in their order
FailSteps ==
    <<"watch_okrs", "enqueue_okrs", "watch_manual", "enqueue_manual",
      "watch_plans", "enqueue_plans">>

\* the location a step belongs to
LocationOf(step) ==
    IF step \in {"watch_okrs", "enqueue_okrs"} THEN "okrs"
    ELSE IF step \in {"watch_manual", "enqueue_manual"} THEN "manual"
    ELSE "plans"

\* the location shows a change against its stored watch state
Pending(loc) ==
    IF loc = "okrs" THEN ChangedFiles(kv, fs, OkrsFiles, OkrsKey) # {}
    ELSE IF loc = "manual" THEN FileChanged(kv, fs, ManualFile, ManualKey)
    ELSE ChangedFiles(kv, fs, PlansDirFiles, PlansKey) # {}

\* daemon_kv when the step fails: the watches before it have saved their
\* state, and so has the watch whose enqueue fails
KVAtFailure(step) ==
    CASE step = "watch_okrs" -> kv
      [] step \in {"enqueue_okrs", "watch_manual"} -> KVAfterOkrs
      [] step \in {"enqueue_manual", "watch_plans"} -> KVAfterManual
      [] OTHER -> KVAfterPlans

\* daemon_jobs when the step fails: the follow-ups of the locations before it
JobsAtFailure(step, now) ==
    CASE step \in {"watch_okrs", "enqueue_okrs"} -> jobs
      [] step \in {"watch_manual", "enqueue_manual"} -> JobsAfterOkrs(now)
      [] OTHER -> JobsAfterManual(now)

\* an enqueue step is reached only when its location has changed
StepReached(step) ==
    /\ step = "enqueue_okrs" => OkrsChanges # {}
    /\ step = "enqueue_manual" => ManualChanged
    /\ step = "enqueue_plans" => NewPlanFiles # {}

\* handleWatchTick returning the error of one of its steps
HandleWatchTickFail(step) ==
    LET now == clock
    IN  /\ StepReached(step)
        /\ jobs' = JobsAtFailure(step, now)
        /\ kv' = KVAtFailure(step)
        /\ lastWatch' = [op |-> "watch_failed", now |-> now, step |-> step,
                         changed |-> Pending(LocationOf(step)),
                         edits |-> edits, mutated |-> <<>>]
        /\ UNCHANGED <<guardVars, revertVars, onceVars, dirVars, planVars, procVars, clock, raceVars, ret, enqueued, schedVars, tickVars,
                       fs, edits, loopVars>>

WatchFaultNext ==
    \/ WatchNext
    \/ \E i \in 1..Len(FailSteps) : HandleWatchTickFail(FailSteps[i])

WatchFaultSpec == WatchInit /\ [][WatchFaultNext]_vars

\* C19 (watcher error isolation and retry): after a watch tick in which one
\* location's watch or enqueue failed, the other locations have been
\* processed (they show no change against their stored state), and a change
\* of the failed location is still there to be detected by a later tick.
C19_WatcherErrorIsolation ==
    (lastWatch.op = "watch_failed" /\ lastWatch.mutated = <<>>) =>
        /\ \A loc \in Locations \ {LocationOf(lastWatch.step)} : ~Pending(loc)
        /\ lastWatch.changed => Pending(LocationOf(lastWatch.step))

\* the other locations have been processed
OthersProcessed ==
    (lastWatch.op = "watch_failed" /\ lastWatch.mutated = <<>>) =>
        \A loc \in Locations \ {LocationOf(lastWatch.step)} : ~Pending(loc)

\* the failed location's change is still to be detected
FailedChangeKept ==
    (lastWatch.op = "watch_failed" /\ lastWatch.mutated = <<>>) =>
        (lastWatch.changed => Pending(LocationOf(lastWatch.step)))

----------------------------------------------------------------------------
(* Leases that run out.  The store's calls run alone, as in Spec, on jobs
   scheduled at instant 0, while the clock moves past lease_expires_at of
   the running rows. *)

\* the time between two calls: the smallest unit, or a whole lease
LeaseSteps == {1, LeaseFor}

LeaseAdvance(step) ==
    /\ jumps < MaxLeaseJumps
    /\ jumps' = jumps + 1
    /\ clock' = clock + step
    /\ UNCHANGED <<guardVars, revertVars, onceVars, dirVars, planVars, procVars, storeVars, raceVars, ret, enqueued, location, emitted,
                   coldMark, lastTick, tickVars, watchVars, loopVars>>

LeaseNext ==
    \/ \E step \in LeaseSteps : LeaseAdvance(step)
    \/ \E jobType \in JobTypes : EnqueueUnique(jobType, 0)
    \/ \E d \in Daemons : ClaimNext(d)
    \/ \E r \in jobs : Succeed(r.id)
    \/ \E r \in jobs : Fail(r.id)

LeaseSpec == Init /\ [][LeaseNext]_vars

\* ListRunning: the rows inspection shows
ListRunning(J) == {r \in J : r.status = "running"}

\* the lease of a running row has run out at instant now
LeaseExpired(r, now) == r.lease_expires_at * Sub < now

\* C25 (no lease reclamation): the row a ClaimNext call returns was queued
\* when the call was made; a running row, also one whose lease has run
\* out, stays as it is in every step but a Succeed or Fail call for its id,
\* and is listed by ListRunning as long as it is running.
C25_NoLeaseReclamation ==
    [][/\ (ret'.op = "ClaimNext" /\ jobs' # jobs) =>
             /\ ret'.kind = "job"
             /\ GetJob(jobs, ret'.id).status = "queued"
       /\ \A r \in ListRunning(jobs) :
             \/ r \in ListRunning(jobs')
             \/ /\ ret'.op \in {"Succeed", "Fail"}
                /\ ret'.id = r.id
                /\ GetJob(jobs', r.id).status \in TerminalStatuses]_vars

\* a ClaimNext call made after the lease of a running row ran out returned
\* none and left the row running under its owner
C25_Witness ==
    /\ ret.op = "ClaimNext"
    /\ ret.kind = "none"
    /\ \E r \in ListRunning(jobs) :
          /\ LeaseExpired(r, clock)
          /\ r.lease_owner # ret.by

----------------------------------------------------------------------------
(* Validation of result.json.  ValidateResultJSON is the guardrails
   package's validator, validateAgentResult the one RunPlan calls.  Both
   decode with encoding/json: a JSON null decoded into a string or into an
   element of a []string leaves the zero value and is no error, a null
   decoded into a slice leaves it nil, and [] decodes into an empty slice
   that is not nil. *)

AllowedFields ==
    {"schema_version", "summary", "proposed_changes", "kr_targets",
     "kr_impact_claim"}

\* requiredFields, in the order they are checked
RequiredFields ==
    <<"schema_version", "summary", "proposed_changes", "kr_targets",
      "kr_impact_claim">>

\* the kinds an array element can have
ElemKinds == {"string", "null", "number"}

\* the strings of the documents; strings.TrimSpace leaves "" of a blank one
TrimSpace(str) == IF str = " " THEN "" ELSE str

\* the keys of the decoded map[string]json.RawMessage
RawMap(d) ==
    IF d.top = "object" THEN {f \in FieldNames : d.fields[f].kind # "absent"}
    ELSE {}

\* json.Unmarshal into a string: the error, the decoded value
StringError(v) == v.kind \notin {"string", "null"}
StringOf(v) == IF v.kind = "string" THEN v.s ELSE ""

\* json.Unmarshal into a []string: the error, and whether the slice is nil
SliceError(v) ==
    \/ v.kind \notin {"array", "null"}
    \/ v.kind = "array" /\ \E i \in 1..Len(v.elems) : v.elems[i] \notin {"string", "null"}
SliceNil(v) == v.kind # "array"

\* the first required field the map lacks, 0 if none
RECURSIVE FirstMissing(_, _, _)
FirstMissing(present, required, n) ==
    IF n > Len(required) THEN 0
    ELSE IF required[n] \notin present THEN n
    ELSE FirstMissing(present, required, n + 1)

\* fmt.Errorf("missing required field: %s", field)
MissingRequired(field) ==
    CASE field = "schema_version" -> "missing required field: schema_version"
      [] field = "summary" -> "missing required field: summary"
      [] field = "proposed_changes" -> "missing required field: proposed_changes"
      [] field = "kr_targets" -> "missing required field: kr_targets"
      [] OTHER -> "missing required field: kr_impact_claim"

\* ValidateResultJSON(path): the error it returns, "" for nil
ValidateResultJSON(d) ==
    LET rawMap == RawMap(d)
        missing == FirstMissing(rawMap, RequiredFields, 1)
        f == d.fields
    IN  IF d.top = "missing" THEN "read result.json"
        ELSE IF d.top \in {"text", "array"} THEN "parse result.json"
        ELSE IF rawMap \ AllowedFields # {}
            THEN "result.json contains disallowed fields"
        ELSE IF missing # 0 THEN MissingRequired(RequiredFields[missing])
        ELSE IF \/ StringError(f["schema_version"])
                \/ StringError(f["summary"])
                \/ SliceError(f["proposed_changes"])
                \/ SliceError(f["kr_targets"])
                \/ StringError(f["kr_impact_claim"])
            THEN "parse result.json structure"
        ELSE IF StringOf(f["schema_version"]) # "1.0"
            THEN "schema_version must be \"1.0\""
        ELSE IF TrimSpace(StringOf(f["summary"])) = ""
            THEN "summary must be a non-empty string"
        ELSE IF SliceNil(f["proposed_changes"])
            THEN "proposed_changes must be an array of strings (can be empty)"
        ELSE IF SliceNil(f["kr_targets"])
            THEN "kr_targets must be an array of strings (can be empty)"
        ELSE IF TrimSpace(StringOf(f["kr_impact_claim"])) = ""
            THEN "kr_impact_claim must be a non-empty string"
        ELSE ""

\* validateAgentResult(path): the error it returns, "" for nil
validateAgentResult(d) ==
    LET obj == RawMap(d)
        f == d.fields
    IN  IF d.top = "missing" THEN "read result.json"
        ELSE IF d.top \in {"text", "array"} THEN "parse result.json"
        ELSE IF "summary" \notin obj THEN "missing field: summary"
        ELSE IF "proposed_changes" \notin obj THEN "missing field: proposed_changes"
        ELSE IF "kr_impact_claim" \notin obj THEN "missing field: kr_impact_claim"
        ELSE IF StringError(f["summary"]) \/ TrimSpace(StringOf(f["summary"])) = ""
            THEN "summary must be a non-empty string"
        ELSE IF SliceError(f["proposed_changes"])
            THEN "proposed_changes must be an array of strings"
        ELSE IF \/ StringError(f["kr_impact_claim"])
                \/ TrimSpace(StringOf(f["kr_impact_claim"])) = ""
            THEN "kr_impact_claim must be a non-empty string"
        ELSE ""

\* the documents handed to the validators
RECURSIVE ElemSeqs(_)
ElemSeqs(n) ==
    IF n = 0 THEN {<<>>}
    ELSE ElemSeqs(n - 1) \cup
         {Append(e, k) : e \in {x \in ElemSeqs(n - 1) : Len(x) = n - 1}, k \in ElemKinds}

VersionValues == {JAbsent, JNull, JNum, JStr("1.0"), JStr("2.0")}
TextValues == {JAbsent, JNull, JNum, JStr(""), JStr(" "), JStr("ok"), JArr(<<>>)}
ListValues == {JAbsent, JNull, JStr("ok")} \cup {JArr(e) : e \in ElemSeqs(MaxElems)}
ExtraValues == {JAbsent, JStr("ok")}

Objects ==
    {Doc("object",
         [f \in FieldNames |->
            CASE f = "schema_version" -> v
              [] f = "summary" -> su
              [] f = "proposed_changes" -> pc
              [] f = "kr_targets" -> kt
              [] f = "kr_impact_claim" -> kc
              [] OTHER -> ex]) :
        v \in VersionValues, su \in TextValues, pc \in ListValues,
        kt \in ListValues, kc \in TextValues, ex \in ExtraValues}

Docs == Objects \cup {Doc(top, NoDoc.fields) : top \in {"missing", "text", "array", "null"}}

\* both validators are run on the file
Validate ==
    /\ verdict = NoVerdict
    /\ verdict' = Verdict(ValidateResultJSON(doc), validateAgentResult(doc))
    /\ UNCHANGED <<clock, storeVars, raceVars, ret, enqueued, schedVars,
                   tickVars, watchVars, loopVars, doc, dirVars, onceVars, revertVars, planVars, procVars>>

ValidateInit ==
    /\ doc \in Docs
    /\ verdict = NoVerdict
    /\ clock = 0
    /\ location = 0
    /\ jobs = {}
    /\ kv = [k \in {} |-> EmptyString]
    /\ claimTx = [d \in Daemons |-> IdleTx]
    /\ enqCall = [p \in Procs |-> IdleTx]
    /\ ret = NoCall
    /\ enqueued = {}
    /\ emitted = {}
    /\ coldMark = NULL
    /\ lastTick = NoCall
    /\ jumps = 0
    /\ tickTx = [s \in Schedulers |-> IdleTick]
    /\ fs = [p \in AllFiles |-> Absent]
    /\ lastWatch = NoCall
    /\ edits = 0
    /\ run = IdleRun
    /\ audit = <<>>
    /\ planRun = IdlePlan
    /\ itemDirs = [i \in Items |-> EmptyDir]
    /\ cancelled = FALSE
    /\ ticker = FALSE
    /\ lost = {}
    /\ dirRuns = [w \in Runners |-> NoDirRun]
    /\ runFiles = {}
    /\ invoked = <<>>
    /\ okrsTree = NoTree
    /\ guardCheck = NoCheck

ValidateNext == Validate

ValidateSpec == ValidateInit /\ [][ValidateNext]_vars

\* the schema of the agent result: an object whose fields are exactly the
\* five, schema_version the string "1.0", summary and kr_impact_claim
\* strings that are not blank, proposed_changes and kr_targets arrays whose
\* elements are all strings
IsStringArray(v) ==
    v.kind = "array" /\ \A i \in 1..Len(v.elems) : v.elems[i] = "string"

NonBlankString(v) == v.kind = "string" /\ v.s \notin {"", " "}

SchemaValid(d) ==
    /\ d.top = "object"
    /\ {f \in FieldNames : d.fields[f].kind # "absent"} = AllowedFields
    /\ d.fields["schema_version"] = JStr("1.0")
    /\ NonBlankString(d.fields["summary"])
    /\ NonBlankString(d.fields["kr_impact_claim"])
    /\ IsStringArray(d.fields["proposed_changes"])
    /\ IsStringArray(d.fields["kr_targets"])

\* C27 (result schema closure): ValidateResultJSON accepts a result file if
\* and only if its top-level fields are exactly the five of the schema,
\* schema_version is "1.0", summary and kr_impact_claim are strings that are
\* non-empty after trimming, and proposed_changes and kr_targets are arrays
\* of strings.
C27_SchemaClosure ==
    verdict # NoVerdict => ((verdict.strict = "") <=> SchemaValid(doc))

----------------------------------------------------------------------------
(* RunPlan.  The items of the plan are run one after the other; for each,
   RunPlan makes the item directory, audits plan_item_started, writes
   prompt.md, calls the adapter, validates result.json with
   validateAgentResult and audits plan_item_finished.  The adapter is an
   external process: it returns with or without an error, leaves any
   result.json behind, and can write under okrs/. *)

\* SnapshotDirHash(okrs/): the relative paths and contents of the files
DirHash(FS, files) == {<<p, FS[p].hash>> : p \in {q \in files : FS[q] # Absent}}
SnapshotDirHash(FS) == DirHash(FS, OkrsFiles)

\* a result.json of the strict schema
ValidResult ==
    Doc("object",
        [f \in FieldNames |->
            CASE f = "schema_version" -> JStr("1.0")
              [] f \in {"summary", "kr_impact_claim"} -> JStr("ok")
              [] f \in {"proposed_changes", "kr_targets"} -> JArr(<<>>)
              [] OTHER -> JAbsent])

\* the file MockAdapter writes: summary, proposed_changes, kr_impact_claim
\* and generated_at
MockResult ==
    Doc("object",
        [f \in FieldNames |->
            CASE f \in {"summary", "kr_impact_claim", "extra"} -> JStr("ok")
              [] f = "proposed_changes" -> JArr(<<>>)
              [] OTHER -> JAbsent])

\* the files an agent leaves as result.json
AgentResults ==
    {NoDoc, ValidResult, MockResult,
     Doc("object", [ValidResult.fields EXCEPT !["extra"] = JStr("ok")]),
     Doc("object", [ValidResult.fields EXCEPT !["schema_version"] = JAbsent]),
     Doc("object", [ValidResult.fields EXCEPT !["schema_version"] = JStr("2.0")]),
     Doc("object", [ValidResult.fields EXCEPT !["kr_targets"] = JAbsent]),
     Doc("object", [ValidResult.fields EXCEPT !["summary"] = JStr(" ")])}

\* what Adapter.Run returns: a result and no error, a result and an error
\* (the process failed or timed out), no result and an error
AdapterReturns ==
    {AdapterReturn(TRUE, "transcript.log", ""),
     AdapterReturn(TRUE, "transcript.log", "exit status 1"),
     AdapterReturn(FALSE, "", "workdir is required")}

\* what the agent does to okrs/a.yml: nothing, a write of new contents, or
\* its removal
TreeWrites(FS) ==
    {FS, [FS EXCEPT !["okrs/a.yml"] = Absent]}
        \cup {[FS EXCEPT !["okrs/a.yml"] = File(h, 0)] : h \in Contents}

\* an event of the plan run in the audit log
PlanEvent(eventType, item, err, resultError, adapterError, resultJSON) ==
    [type |-> eventType, job |-> item, error |-> err, result_error |-> resultError,
     adapter_error |-> adapterError, result_json |-> resultJSON]

\* audit.LogEvent: the event is appended, or the call fails and it is lost
LogEvent(log, event, logged) == IF logged THEN Append(log, event) ELSE log
LostEvent(L, event, logged) == IF logged THEN L ELSE L \cup {event.type}

\* what the caller makes of a LogEvent error: nothing
LogEventErrorBad(logged) == IF logged THEN "" ELSE "audit log failed"
LogEventError(logged) == ""

\* the errors RunPlan returns
AgentRunFailed(transcript) ==
    IF transcript # "" THEN "agent run failed for item (see transcript.log)"
    ELSE "agent run failed for item"
AgentResultInvalid == "agent result invalid for item"

\* RunPlan up to the loop: the plan is loaded and the run directory made
StartPlan ==
    /\ planRun.pc = "idle"
    /\ planRun' = PlanRun("item", 1, <<>>, <<>>, "")
    /\ itemDirs' = [i \in Items |-> EmptyDir]
    /\ UNCHANGED <<clock, storeVars, raceVars, ret, enqueued, schedVars,
                   tickVars, watchVars, loopVars, guardVars, revertVars, onceVars, dirVars, procVars>>

\* lines 66-91: the item directory, plan_item_started, prompt.md.  fault
\* names the call that fails: "mkdir", "prompt" or none
BeginItem(fault, logged) ==
    LET item == planRun.idx
        event == PlanEvent("plan_item_started", item, "", "", "", "")
        auditErr == LogEventError(logged)
    IN  /\ planRun.pc = "item"
        /\ IF fault = "mkdir"
              THEN /\ planRun' = [planRun EXCEPT !.pc = "returned",
                                                 !.err = "ensure item dir"]
                   /\ UNCHANGED <<itemDirs, audit, lost>>
              ELSE /\ audit' = LogEvent(audit, event, logged)
                   /\ lost' = LostEvent(lost, event, logged)
                   /\ IF auditErr # ""
                         THEN /\ planRun' = [planRun EXCEPT !.pc = "returned",
                                                            !.err = auditErr]
                              /\ itemDirs' = itemDirs
                         ELSE IF fault = "prompt"
                         THEN /\ planRun' = [planRun EXCEPT !.pc = "returned",
                                                            !.err = "write prompt"]
                              /\ itemDirs' = itemDirs
                         ELSE /\ planRun' = [planRun EXCEPT !.pc = "prompted"]
                              /\ itemDirs' = [itemDirs EXCEPT ![item].prompt = TRUE]
        /\ UNCHANGED <<clock, storeVars, raceVars, ret, enqueued, schedVars,
                       tickVars, watchVars, run, guardVars, revertVars, onceVars, dirVars, cancelled, ticker>>

\* line 111: the adapter runs
RunAdapter(result, written, tree) ==
    LET item == planRun.idx
        call == AdapterCall(result, SnapshotDirHash(fs), SnapshotDirHash(tree))
    IN  /\ planRun.pc = "prompted"
        /\ result \in AdapterReturns
        /\ written \in AgentResults
        /\ tree \in TreeWrites(fs)
        /\ fs' = tree
        /\ itemDirs' = [itemDirs EXCEPT ![item].result = written]
        /\ planRun' = [planRun EXCEPT !.pc = "ran", !.calls = Append(@, call)]
        /\ UNCHANGED <<clock, storeVars, raceVars, ret, enqueued, schedVars,
                       tickVars, lastWatch, edits, loopVars, guardVars, revertVars, onceVars, dirVars, procVars>>

\* the for loop goes on with the next item, or RunPlan returns nil
NextItem(item) ==
    IF item < MaxItems THEN [pc |-> "item", idx |-> item + 1]
    ELSE [pc |-> "returned", idx |-> item]

\* RunPlan gives the run up at an item: it returns the error
GiveUpBad(P, item, err) ==
    [P EXCEPT !.pc = NextItem(item).pc, !.idx = NextItem(item).idx]
GiveUp(P, item, err) == [P EXCEPT !.pc = "returned", !.err = err]

\* the decision of lines 129-157 and the event it audits
ItemDecision(item, result, validateErr) ==
    LET runErr == result.runErr
        finished(err, resultError, adapterError, resultJSON) ==
            PlanEvent("plan_item_finished", item, err, resultError,
                      adapterError, resultJSON)
    IN  IF runErr # "" /\ validateErr # ""
            THEN [keep |-> FALSE, err |-> AgentRunFailed(result.transcript),
                  event |-> finished(runErr, validateErr, "", "")]
        ELSE IF validateErr # ""
            THEN [keep |-> FALSE, err |-> AgentResultInvalid,
                  event |-> finished(validateErr, "", "", "")]
        ELSE [keep |-> TRUE, err |-> "",
              event |-> finished("", "", runErr, "result.json")]

\* lines 129-157: result.json is validated, plan_item_finished audited, and
\* the item recorded or the run given up
FinishItem(logged) ==
    LET item == planRun.idx
        result == planRun.calls[item].result
        validateErr == validateAgentResult(itemDirs[item].result)
        decision == ItemDecision(item, result, validateErr)
        auditErr == LogEventError(logged)
        next == NextItem(item)
    IN  /\ planRun.pc = "ran"
        /\ audit' = LogEvent(audit, decision.event, logged)
        /\ lost' = LostEvent(lost, decision.event, logged)
        /\ IF auditErr # ""
              THEN planRun' = [planRun EXCEPT !.pc = "returned", !.err = auditErr]
              ELSE IF decision.keep
              THEN planRun' = [planRun EXCEPT !.pc = next.pc, !.idx = next.idx,
                                              !.itemRuns = Append(@, item)]
              ELSE planRun' = GiveUp(planRun, item, decision.err)
        /\ UNCHANGED <<clock, storeVars, raceVars, ret, enqueued, schedVars,
                       tickVars, watchVars, run, guardVars, revertVars, onceVars, dirVars, itemDirs, cancelled,
                       ticker>>

\* the calls that can fail while an item is begun
ItemFaults == {"", "mkdir", "prompt"}

PlanNext ==
    \/ StartPlan
    \/ \E fault \in ItemFaults : BeginItem(fault, TRUE)
    \/ \E result \in AdapterReturns, written \in AgentResults, tree \in TreeWrites(fs) :
          RunAdapter(result, written, tree)
    \/ FinishItem(TRUE)

\* `plan run` on a workspace whose okrs/a.yml exists or not
PlanInit ==
    /\ fs \in {[p \in AllFiles |-> Absent],
               [p \in AllFiles |-> IF p \in OkrsFiles THEN File(1, 0) ELSE Absent]}
    /\ doc = NoDoc
    /\ verdict = NoVerdict
    /\ clock = 0
    /\ location = 0
    /\ jobs = {}
    /\ kv = [k \in {} |-> EmptyString]
    /\ claimTx = [d \in Daemons |-> IdleTx]
    /\ enqCall = [p \in Procs |-> IdleTx]
    /\ ret = NoCall
    /\ enqueued = {}
    /\ emitted = {}
    /\ coldMark = NULL
    /\ lastTick = NoCall
    /\ jumps = 0
    /\ tickTx = [s \in Schedulers |-> IdleTick]
    /\ lastWatch = NoCall
    /\ edits = 0
    /\ run = IdleRun
    /\ audit = <<>>
    /\ planRun = IdlePlan
    /\ itemDirs = [i \in Items |-> EmptyDir]
    /\ cancelled = FALSE
    /\ ticker = FALSE
    /\ lost = {}
    /\ dirRuns = [w \in Runners |-> NoDirRun]
    /\ runFiles = {}
    /\ invoked = <<>>
    /\ okrsTree = NoTree
    /\ guardCheck = NoCheck

PlanSpec == PlanInit /\ [][PlanNext]_vars

----------------------------------------------------------------------------
(* Claims about plan runs *)

\* the adapter has run for the item and RunPlan has decided on it
Decided(i) ==
    /\ i <= Len(planRun.calls)
    /\ i < planRun.idx \/ planRun.pc \in {"returned", "idle"}

\* the item is among RunResult.ItemRuns
Kept(i) == \E n \in 1..Len(planRun.itemRuns) : planRun.itemRuns[n] = i

\* the events of a type the audit log holds for an item
EventsOf(eventType, i) ==
    {n \in 1..Len(audit) : audit[n].type = eventType /\ audit[n].job = i}

\* something of the item exists: its prompt, its plan_item_started event,
\* its adapter call
Started(i) ==
    \/ itemDirs[i].prompt
    \/ EventsOf("plan_item_started", i) # {}
    \/ i <= Len(planRun.calls)

\* the run was given up at item i
AbortedAt(i) ==
    /\ planRun.pc = "returned"
    /\ planRun.err # ""
    /\ planRun.idx = i
    /\ \A j \in Items : j > i => ~Started(j)

\* C26 (protected-tree integrity): for every item RunPlan has decided on,
\* if the fingerprint of okrs/ before the adapter run differs from the one
\* after it, the item is failed, violation.json is in the item directory
\* and guardrail_violation is audited, whatever the adapter returned and
\* whatever result.json holds.
C26_ProtectedTreeIntegrity ==
    \A i \in Items :
        (Decided(i) /\ planRun.calls[i].before # planRun.calls[i].after) =>
            /\ ~Kept(i)
            /\ itemDirs[i].violation
            /\ EventsOf("guardrail_violation", i) # {}

\* the result file breaks the strict schema in one of the ways named: an
\* unknown field, no schema_version, no kr_targets, another schema_version
BreaksStrictSchema(d) ==
    /\ d.top = "object"
    /\ \/ d.fields["extra"] # JAbsent
       \/ d.fields["schema_version"] # JStr("1.0")
       \/ d.fields["kr_targets"] = JAbsent

\* C28 (strict schema on every item): when the result file of a decided
\* item has an unknown field, lacks schema_version or kr_targets, or has a
\* schema_version other than "1.0", the item is failed, plan_item_finished
\* is audited with an error, and the run is given up at the item, also
\* when the adapter returned no error.
C28_StrictSchemaEnforced ==
    \A i \in Items :
        (Decided(i) /\ BreaksStrictSchema(itemDirs[i].result)) =>
            /\ ~Kept(i)
            /\ \E n \in EventsOf("plan_item_finished", i) : audit[n].error # ""
            /\ AbortedAt(i)

\* the item failed: a call made for it failed, or its plan_item_finished
\* event carries an error
Failed(i) ==
    \/ \E n \in EventsOf("plan_item_finished", i) : audit[n].error # ""
    \/ planRun.pc = "returned" /\ planRun.idx = i /\ planRun.err # ""

\* C29 (abort on the first failing item): the items are run in plan order,
\* each in its own directory; when an item fails, no later item is
\* started (no prompt, no plan_item_started, no adapter call), RunPlan has
\* returned an error, and the items before it keep their artifacts and
\* their place in ItemRuns.
C29_AbortOnFirstFailure ==
    /\ \A n \in 1..Len(planRun.itemRuns) : planRun.itemRuns[n] = n
    /\ \A i \in Items :
          Started(i) => \A k \in 1..(i - 1) :
              /\ Kept(k)
              /\ itemDirs[k].prompt
              /\ validateAgentResult(itemDirs[k].result) = ""
    /\ \A i \in Items : Failed(i) => AbortedAt(i)

\* the second item failed after the first was kept
C29_Witness ==
    /\ Failed(2)
    /\ AbortedAt(2)
    /\ Kept(1)
    /\ Len(planRun.calls) = 2

\* C30 (per-item outcome): for a decided item whose adapter run left okrs/
\* alone, the item is kept and the run goes on if and only if the result
\* file is valid; with a valid result an adapter error is audited as
\* adapter_error only; with an invalid one the item fails and the run is
\* given up, with error and result_error audited when the adapter failed
\* too; and every started item has exactly one plan_item_finished event
\* once RunPlan is through with it.
C30_ItemOutcome ==
    /\ \A i \in Items :
          (Decided(i) /\ planRun.calls[i].before = planRun.calls[i].after) =>
              LET valid == SchemaValid(itemDirs[i].result)
                  runErr == planRun.calls[i].result.runErr
              IN  /\ Kept(i) <=> valid
                  /\ valid => \A n \in EventsOf("plan_item_finished", i) :
                                  audit[n].error = "" /\ audit[n].adapter_error = runErr
                  /\ ~valid => /\ AbortedAt(i)
                               /\ \A n \in EventsOf("plan_item_finished", i) :
                                     /\ audit[n].error # ""
                                     /\ runErr # "" => /\ audit[n].error = runErr
                                                       /\ audit[n].result_error # ""
    /\ \A i \in Items :
          (EventsOf("plan_item_started", i) # {} /\ (i < planRun.idx \/ planRun.pc = "returned")) =>
              Cardinality(EventsOf("plan_item_finished", i)) = 1

\* the decision table, read with the validator RunPlan calls
ItemOutcomeByAgentCheck ==
    \A i \in Items :
        Decided(i) =>
            LET valid == validateAgentResult(itemDirs[i].result) = ""
                runErr == planRun.calls[i].result.runErr
            IN  /\ Kept(i) <=> valid
                /\ Cardinality(EventsOf("plan_item_finished", i)) = 1
                /\ valid => \A n \in EventsOf("plan_item_finished", i) :
                                audit[n].error = "" /\ audit[n].adapter_error = runErr
                /\ ~valid => /\ AbortedAt(i)
                             /\ \A n \in EventsOf("plan_item_finished", i) :
                                   /\ audit[n].error # ""
                                   /\ runErr # "" => /\ audit[n].error = runErr
                                                     /\ audit[n].result_error # ""

\* every started item RunPlan is through with has one plan_item_finished
StartedItemsFinish ==
    \A i \in Items :
        (EventsOf("plan_item_started", i) # {} /\ (i < planRun.idx \/ planRun.pc = "returned")) =>
            Cardinality(EventsOf("plan_item_finished", i)) = 1

----------------------------------------------------------------------------
(* Daemon.Run: the poll loop around claimAndExecute, with a second daemon  *)
(* on the same store, an audit log that can fail, and the shutdown signal. *)

\* the job types `daemon enqueue` is called with while the loop runs
RunJobTypes == {"kr_measure", "plan_generate", "custom"}

\* `okrchestra daemon enqueue <type> --at <now>`
DaemonEnqueue(jobType) ==
    /\ jobType \in RunJobTypes \cup {"plan_execute"}
    /\ EnqueueRows(jobType, clock, Cardinality(RunJobTypes))

\* Run before its loop: daemon_started is audited, an error is printed
RunStart(logged) ==
    LET event == AuditEvent("daemon_started", NoJob, "")
        auditErr == LogEventError(logged)
    IN  /\ run.pc = "new"
        /\ audit' = LogEvent(audit, event, logged)
        /\ lost' = LostEvent(lost, event, logged)
        /\ run' = IF auditErr # "" THEN Run("returned", NoJob, "", auditErr)
                  ELSE IdleRun
        /\ UNCHANGED <<clock, storeVars, raceVars, ret, enqueued, schedVars,
                       tickVars, watchVars, guardVars, revertVars, onceVars, dirVars, planVars, cancelled, ticker>>

\* the poll interval has passed: ticker.C, of capacity one, holds a tick
TickerFire ==
    /\ run.pc \notin {"new", "returned"}
    /\ ~ticker
    /\ ticker' = TRUE
    /\ UNCHANGED <<clock, storeVars, raceVars, ret, enqueued, schedVars,
                   tickVars, watchVars, loopVars, guardVars, revertVars, onceVars, dirVars, planVars,
                   cancelled, lost>>

\* SIGINT or SIGTERM arrives: the signal goroutine cancels the context
Cancel ==
    /\ run.pc # "returned"
    /\ ~cancelled
    /\ cancelled' = TRUE
    /\ UNCHANGED <<clock, storeVars, raceVars, ret, enqueued, schedVars,
                   tickVars, watchVars, loopVars, guardVars, revertVars, onceVars, dirVars, planVars,
                   ticker, lost>>

\* select takes <-ctx.Done(): daemon_stopped is audited and Run returns nil
RunStop(logged) ==
    LET event == AuditEvent("daemon_stopped", NoJob, "")
    IN  /\ run.pc = "idle"
        /\ cancelled
        /\ audit' = LogEvent(audit, event, logged)
        /\ lost' = LostEvent(lost, event, logged)
        /\ run' = [run EXCEPT !.pc = "returned"]
        /\ UNCHANGED <<clock, storeVars, raceVars, ret, enqueued, schedVars,
                       tickVars, watchVars, guardVars, revertVars, onceVars, dirVars, planVars, cancelled, ticker>>

\* select takes <-ticker.C: Scheduler.Tick runs, and its error is printed.
\* Tick ends with a write, which fails while another connection is in a
\* transaction
RunPoll ==
    /\ run.pc = "idle"
    /\ ticker
    /\ ticker' = FALSE
    /\ IF WriteBusy(LoopOwner)
          THEN UNCHANGED <<jobs, kv, emitted, coldMark, lastTick>>
          ELSE TickBody
    /\ run' = [run EXCEPT !.pc = "polled"]
    /\ UNCHANGED <<clock, raceVars, ret, enqueued, location, jumps, tickVars,
                   watchVars, audit, guardVars, revertVars, onceVars, dirVars, planVars, cancelled, lost>>

\* claimAndExecute, lines 143-162: ClaimNext and the job_started event
RunClaim(logged) ==
    LET now == clock
        nowStr == FormatRFC3339(now)
        leaseExpiresAt == FormatRFC3339(now + LeaseFor)
        auditErr == LogEventError(logged)
    IN  /\ run.pc = "polled"
        /\ IF NextCandidates(jobs, nowStr) = {}
              THEN /\ run' = IdleRun
                   /\ UNCHANGED <<jobs, audit, lost>>
              ELSE IF WriteBusy(LoopOwner)
              THEN /\ run' = FailedRun(NoJob, "", "claim job")
                   /\ UNCHANGED <<jobs, audit, lost>>
              ELSE \E r \in NextCandidates(jobs, nowStr) :
                      LET event == AuditEvent("job_started", r.id, "")
                      IN  /\ jobs' = ClaimRow(jobs, r.id, nowStr, LoopOwner,
                                              leaseExpiresAt)
                          /\ audit' = LogEvent(audit, event, logged)
                          /\ lost' = LostEvent(lost, event, logged)
                          /\ run' = IF auditErr # ""
                                       THEN FailedRun(r.id, r.type, auditErr)
                                       ELSE Run("started", r.id, r.type, "")
        /\ UNCHANGED <<clock, kv, raceVars, ret, enqueued, schedVars, tickVars,
                       watchVars, guardVars, revertVars, onceVars, dirVars, planVars, cancelled, ticker>>

\* Store.Fail as claimAndExecute calls it: its error is discarded
FailDiscarded(J, id, err) ==
    IF WriteBusy(LoopOwner) THEN J
    ELSE FinishRow(J, id, "failed", FormatRFC3339(clock), ErrorJSON(err))

\* claimAndExecute, lines 165-177: a type without a handler
RunNoHandler(logged) ==
    LET err == NoHandlerError(run.type)
        event == AuditEvent("job_failed", run.job, err)
    IN  /\ run.pc = "started"
        /\ run.type \notin Handlers
        /\ jobs' = FailDiscarded(jobs, run.job, err)
        /\ audit' = LogEvent(audit, event, logged)
        /\ lost' = LostEvent(lost, event, logged)
        /\ run' = FailedRun(run.job, run.type, err)
        /\ UNCHANGED <<clock, kv, raceVars, ret, enqueued, schedVars, tickVars,
                       watchVars, guardVars, revertVars, onceVars, dirVars, planVars, cancelled, ticker>>

\* handlePlanExecute up to its call of RunPlan
HandlePlanExecute ==
    /\ run.pc = "started"
    /\ run.type = "plan_execute"
    /\ StartPlan

\* the error handlePlanExecute wraps RunPlan's error in
RunPlanError(err) ==
    CASE err = "" -> ""
      [] err = "ensure item dir" -> "run plan: ensure item dir"
      [] err = "write prompt" -> "run plan: write prompt"
      [] err = "agent run failed for item (see transcript.log)" ->
            "run plan: agent run failed for item (see transcript.log)"
      [] err = "agent run failed for item" -> "run plan: agent run failed for item"
      [] err = "agent result invalid for item" ->
            "run plan: agent result invalid for item"
      [] err = "audit log failed" -> "run plan: audit log failed"

\* handlePlanExecute after RunPlan returned: the result map or the error
PlanExecuteReturn ==
    /\ run.pc = "started"
    /\ run.type = "plan_execute"
    /\ planRun.pc = "returned"
    /\ run' = [run EXCEPT !.pc = "handled", !.err = RunPlanError(planRun.err)]
    /\ planRun' = [planRun EXCEPT !.pc = "idle"]
    /\ UNCHANGED <<clock, storeVars, raceVars, ret, enqueued, schedVars,
                   tickVars, watchVars, audit, guardVars, revertVars, onceVars, dirVars, itemDirs, procVars>>

\* claimAndExecute, lines 182-206: Fail and job_failed after an error;
\* otherwise Succeed, whose error is returned, and then job_succeeded
RunFinish(logged) ==
    LET failed == AuditEvent("job_failed", run.job, run.err)
        succeeded == AuditEvent("job_succeeded", run.job, "")
    IN  /\ run.pc = "handled"
        /\ IF run.err # ""
              THEN /\ jobs' = FailDiscarded(jobs, run.job, run.err)
                   /\ audit' = LogEvent(audit, failed, logged)
                   /\ lost' = LostEvent(lost, failed, logged)
                   /\ run' = FailedRun(run.job, run.type, run.err)
              ELSE IF WriteBusy(LoopOwner)
              THEN /\ run' = FailedRun(run.job, run.type, "mark job succeeded")
                   /\ UNCHANGED <<jobs, audit, lost>>
              ELSE /\ jobs' = FinishRow(jobs, run.job, "succeeded",
                                        FormatRFC3339(clock), "result")
                   /\ audit' = LogEvent(audit, succeeded, logged)
                   /\ lost' = LostEvent(lost, succeeded, logged)
                   /\ run' = Run("idle", run.job, run.type, "")
        /\ UNCHANGED <<clock, kv, raceVars, ret, enqueued, schedVars, tickVars,
                       watchVars, guardVars, revertVars, onceVars, dirVars, planVars, cancelled, ticker>>

\* a daemon that has not yet entered Run, on an empty store
RunInit ==
    /\ clock = 0
    /\ location = 0
    /\ jobs = {}
    /\ kv = [k \in {} |-> EmptyString]
    /\ claimTx = [d \in Daemons |-> IdleTx]
    /\ enqCall = [p \in Procs |-> IdleTx]
    /\ ret = NoCall
    /\ enqueued = {}
    /\ emitted = {}
    /\ coldMark = NULL
    /\ lastTick = NoCall
    /\ jumps = 0
    /\ tickTx = [s \in Schedulers |-> IdleTick]
    /\ fs = [p \in AllFiles |-> Absent]
    /\ lastWatch = NoCall
    /\ edits = 0
    /\ run = Run("new", NoJob, "", "")
    /\ audit = <<>>
    /\ doc = NoDoc
    /\ verdict = NoVerdict
    /\ planRun = IdlePlan
    /\ itemDirs = [i \in Items |-> EmptyDir]
    /\ cancelled = FALSE
    /\ ticker = FALSE
    /\ lost = {}
    /\ dirRuns = [w \in Runners |-> NoDirRun]
    /\ runFiles = {}
    /\ invoked = <<>>
    /\ okrsTree = NoTree
    /\ guardCheck = NoCheck

\* the other daemon on the store
OtherDaemon == CHOOSE d \in Daemons : d # LoopOwner

\* the loop of LoopOwner, the other daemon's ClaimNext calls, the shutdown
\* signal; every audit write succeeds
RunNext ==
    \/ \E jobType \in RunJobTypes : DaemonEnqueue(jobType)
    \/ ClaimSelect(OtherDaemon)
    \/ ClaimUpdate(OtherDaemon)
    \/ ClaimCommit(OtherDaemon)
    \/ ClaimReturnToCaller(OtherDaemon)
    \/ RunStart(TRUE)
    \/ TickerFire
    \/ Cancel
    \/ RunStop(TRUE)
    \/ RunPoll
    \/ RunClaim(TRUE)
    \/ RunNoHandler(TRUE)
    \/ \E err \in {"", HandlerError} : LoopHandler(err)
    \/ RunFinish(TRUE)

RunSpec == RunInit /\ [][RunNext]_vars

\* the job types enqueued while the audit log is unreliable: one with a
\* handler that audits, one without a handler
AuditJobTypes == {"plan_execute", "custom"}

\* MockAdapter.Run, the adapter of a plan_execute job whose payload names
\* none: it writes its result.json and returns no error, or it returns an
\* error and no result
MockOutcomes ==
    {[result |-> r, written |-> IF r.returned THEN MockResult ELSE NoDoc] :
        r \in {x \in AdapterReturns : x.returned <=> x.runErr = ""}}

\* the loop of one daemon whose plan_execute handler calls RunPlan; every
\* LogEvent call, of the loop and of RunPlan, succeeds or fails
AuditNext ==
    \/ \E jobType \in AuditJobTypes : DaemonEnqueue(jobType)
    \/ \E logged \in BOOLEAN : RunStart(logged)
    \/ TickerFire
    \/ RunPoll
    \/ \E logged \in BOOLEAN : RunClaim(logged)
    \/ \E logged \in BOOLEAN : RunNoHandler(logged)
    \/ HandlePlanExecute
    \/ \E fault \in ItemFaults, logged \in BOOLEAN : BeginItem(fault, logged)
    \/ \E o \in MockOutcomes : RunAdapter(o.result, o.written, fs)
    \/ \E logged \in BOOLEAN : FinishItem(logged)
    \/ PlanExecuteReturn
    \/ \E logged \in BOOLEAN : RunFinish(logged)

AuditSpec == RunInit /\ [][AuditNext]_vars

----------------------------------------------------------------------------
(* Claims about Daemon.Run *)

\* the rows that are running under the loop's lease_owner
RunningOf(owner) == {r \in jobs : r.status = "running" /\ r.lease_owner = owner}

\* the loop is between ClaimNext and the end of claimAndExecute for the job
InFlight(id) == run.job = id /\ run.pc \in {"started", "handled"}

\* C21 (one job at a time): at every moment at most one row with status
\* running carries the lease_owner of the running daemon.
C21_OneJobAtATime == Cardinality(RunningOf(LoopOwner)) <= 1

\* the terminal events the audit log holds for a job
TerminalEvents(id) == EventsOf("job_succeeded", id) \cup EventsOf("job_failed", id)

\* C22 (audit mirrors job transitions): every row the loop has claimed has
\* one job_started event; once claimAndExecute is through with it, it has
\* exactly one terminal event, later than job_started, and that event is
\* job_succeeded iff the row is succeeded and job_failed iff the row is
\* failed; a row that is still running has no terminal event.
C22_AuditMirrorsJobs ==
    \A r \in jobs :
        r.lease_owner = LoopOwner =>
            /\ Cardinality(EventsOf("job_started", r.id)) = 1
            /\ r.status = "running" => TerminalEvents(r.id) = {}
            /\ ~InFlight(r.id) =>
                  /\ Cardinality(TerminalEvents(r.id)) = 1
                  /\ \A n \in TerminalEvents(r.id) :
                        \A m \in EventsOf("job_started", r.id) : m < n
                  /\ r.status = "succeeded" <=> EventsOf("job_succeeded", r.id) # {}
                  /\ r.status = "failed" <=> EventsOf("job_failed", r.id) # {}

\* C24 (graceful shutdown): once the context is cancelled the loop runs no
\* further Scheduler.Tick and claims no further job; when Run has returned,
\* no job is in flight and daemon_stopped is the last audit event.
C24_GracefulShutdown ==
    [][/\ cancelled => ~(run.pc = "idle" /\ run'.pc = "polled")
       /\ cancelled => ~(run.pc = "polled" /\ run'.pc = "started")
       /\ run'.pc = "returned" =>
             /\ cancelled
             /\ Len(audit') > 0
             /\ audit'[Len(audit')].type = "daemon_stopped"]_vars

\* the part of the shutdown that holds: Run returns only after the signal,
\* only from the select, with daemon_stopped as its last audit event
ReturnsOnlyWhenStopped ==
    run.pc = "returned" =>
        /\ cancelled
        /\ Len(audit) > 0
        /\ audit[Len(audit)].type = "daemon_stopped"

\* a tick taken by the select although the context was already cancelled
\* when the loop came back to it
TickAfterSignal ==
    [][cancelled /\ run.pc = "idle" => run'.pc # "polled"]_vars

\* the event types whose LogEvent call failed at least once
LostTypes == lost

\* what RunPlan decides on a decided item from the adapter's return and the
\* result.json in the item directory
DecisionOf(i) ==
    ItemDecision(i, planRun.calls[i].result,
                 validateAgentResult(itemDirs[i].result))

\* the status and result_json of a row claimAndExecute is through with, from
\* its type and from what RunPlan returned
OutcomeOf(r) ==
    IF r.type \notin Handlers
        THEN [status |-> "failed", result_json |-> ErrorJSON(NoHandlerError(r.type))]
    ELSE IF planRun.err # ""
        THEN [status |-> "failed", result_json |-> ErrorJSON(RunPlanError(planRun.err))]
    ELSE [status |-> "succeeded", result_json |-> "result"]

\* C23 (audit failures never propagate): whichever LogEvent calls failed,
\* Run has not returned; every item RunPlan decided on is kept or failed
\* as the adapter's return and its result.json decide, and RunPlan's error
\* is never one of the audit log; every row claimAndExecute is through
\* with has the terminal status and the result its type and RunPlan's
\* return decide.
C23_AuditFailuresContained ==
    /\ run.pc # "returned"
    /\ planRun.err \in {"", "ensure item dir", "write prompt", AgentResultInvalid}
                       \cup {AgentRunFailed(t.transcript) : t \in AdapterReturns}
    /\ \A i \in Items :
          Decided(i) =>
             /\ Kept(i) <=> DecisionOf(i).keep
             /\ ~Kept(i) => planRun.err = DecisionOf(i).err
    /\ \A r \in jobs :
          r.lease_owner = LoopOwner /\ ~InFlight(r.id) =>
             /\ r.status = OutcomeOf(r).status
             /\ r.result_json = OutcomeOf(r).result_json

\* every one of the six events was lost at least once, and both jobs are
\* through: the plan_execute job succeeded with all its items kept
C23_Witness ==
    /\ {"daemon_started", "job_started", "job_succeeded", "job_failed",
        "plan_item_started", "plan_item_finished"} \subseteq LostTypes
    /\ \E r \in jobs : r.type = "plan_execute" /\ r.status = "succeeded"
    /\ \E r \in jobs : r.type = "custom" /\ r.status = "failed"
    /\ \A i \in Items : Kept(i)
    /\ run.pc = "idle"

----------------------------------------------------------------------------
(* Plan runs with the mock adapter *)

\* MockAdapter.Run on a writable run directory: transcript.log and
\* result.json are written and no error is returned
MockSuccess == {o \in MockOutcomes : o.result.runErr = ""}

\* a daemon whose plan_execute jobs run their plan with the mock adapter;
\* no call fails
MockNext ==
    \/ \E jobType \in AuditJobTypes : DaemonEnqueue(jobType)
    \/ RunStart(TRUE)
    \/ TickerFire
    \/ RunPoll
    \/ RunClaim(TRUE)
    \/ RunNoHandler(TRUE)
    \/ HandlePlanExecute
    \/ BeginItem("", TRUE)
    \/ \E o \in MockSuccess : RunAdapter(o.result, o.written, fs)
    \/ FinishItem(TRUE)
    \/ PlanExecuteReturn
    \/ RunFinish(TRUE)

MockSpec == RunInit /\ [][MockNext]_vars

\* RunPlan has returned to handlePlanExecute
PlanReturned == planRun.pc \in {"returned", "idle"} /\ Len(planRun.calls) > 0

\* the mock run as RunPlan sees it: every decided item passed
\* validateAgentResult and is in ItemRuns with its two events and its
\* result.json, and a run that returned returned no error after all items
MockRunAccepted ==
    /\ \A i \in Items :
          Decided(i) =>
             /\ validateAgentResult(itemDirs[i].result) = ""
             /\ Kept(i)
             /\ Cardinality(EventsOf("plan_item_started", i)) = 1
             /\ Cardinality(EventsOf("plan_item_finished", i)) = 1
             /\ itemDirs[i].result.top = "object"
    /\ PlanReturned =>
          /\ planRun.err = ""
          /\ \A i \in Items : Decided(i)

\* C31 (mock plan run): the run completes - every item is kept with
\* plan_item_started, plan_item_finished and a result.json, and RunPlan
\* returns no error - and the stub result.json of every item conforms to
\* the agent-result schema, as ValidateResultJSON checks it.
C31_MockRunCompletes ==
    /\ MockRunAccepted
    /\ \A i \in Items :
          Decided(i) => ValidateResultJSON(itemDirs[i].result) = ""

----------------------------------------------------------------------------
(* Run directories.  RunPlan names its run directory after the second it  *)
(* starts in, under the directory of the plan it runs.                     *)

\* time.Now().UTC().Format("20060102T150405Z"): the second of the instant
RunID(t) == t \div Sub

\* filepath.Join(planDir, "runs", runID)
RunDir(planPath, runID) == <<planPath, runID>>

\* the files RunPlan and the adapter write into an item directory
ItemFiles == {"prompt.md", "result.json"}

RunFile(dir, item, name, by) == [dir |-> dir, item |-> item, name |-> name, by |-> by]

\* lines 50-55: the plan is loaded, the run directory named and made;
\* MkdirAll returns no error for a directory that exists
AllocateRunDir(w, planPath) ==
    /\ dirRuns[w].pc = "idle"
    /\ planPath \in PlanFiles
    /\ dirRuns' = [dirRuns EXCEPT ![w] =
          DirRun("items", RunDir(planPath, RunID(clock)), 1)]
    /\ UNCHANGED <<clock, storeVars, raceVars, ret, enqueued, schedVars,
                   tickVars, watchVars, loopVars, guardVars, revertVars, onceVars, planVars,
                   procVars, runFiles>>

\* lines 66-111: the item directory is made, prompt.md written, and the
\* adapter writes result.json
WriteItemDir(w) ==
    LET r == dirRuns[w]
    IN  /\ r.pc = "items"
        /\ runFiles' = runFiles \cup
              {RunFile(r.dir, r.idx, name, w) : name \in ItemFiles}
        /\ dirRuns' = [dirRuns EXCEPT ![w] =
              IF r.idx < MaxItems THEN DirRun("items", r.dir, r.idx + 1)
              ELSE DirRun("done", r.dir, r.idx)]
        /\ UNCHANGED <<clock, storeVars, raceVars, ret, enqueued, schedVars,
                       tickVars, watchVars, loopVars, guardVars, revertVars, onceVars, planVars,
                       procVars>>

\* the daemon's plan_execute handler and `plan run` each run one plan
\* while time passes
DirNext ==
    \/ Advance
    \/ \E w \in Runners, planPath \in PlanFiles : AllocateRunDir(w, planPath)
    \/ \E w \in Runners : WriteItemDir(w)

DirSpec == Init /\ [][DirNext]_vars

\* C32 (run directory ownership): no two runs write into one run
\* directory - every file under a run directory was written by one run.
C32_RunDirOwnership ==
    \A f \in runFiles, g \in runFiles : f.dir = g.dir => f.by = g.by

----------------------------------------------------------------------------
(* Further claims about the watcher *)

\* C33 (single-file deletion reported once): a watch tick that finds
\* metrics/manual.yml absent with a stored state leaves the absent state
\* stored; a tick that follows another with no change in between, while
\* the file is absent, reports no change of it and creates no kr_measure
\* job.
C33_DeletionReportedOnce ==
    lastWatch.op = "watch" =>
        /\ lastWatch.manualGone =>
              \/ ManualKey \notin DOMAIN kv
              \/ kv[ManualKey].hash = 0
        /\ (lastWatch.prior /\ lastWatch.since = <<>> /\ fs[ManualFile].hash = 0) =>
              /\ ~lastWatch.manual
              /\ \A r \in lastWatch.created : r.type # "kr_measure"

\* the tick that first finds the file gone does report the deletion
DeletionReported ==
    (lastWatch.op = "watch" /\ lastWatch.manualGone) => lastWatch.manual

\* the paths of a stored directory state; none stored is an empty map
StoredPaths(key) == IF key \in DOMAIN kv THEN DOMAIN kv[key] ELSE {}

\* a tracked file that is there and is new or has another hash than stored
IsChange(p, key) ==
    /\ fs[p].hash # 0
    /\ p \notin StoredPaths(key) \/ kv[key][p].hash # fs[p].hash

\* a stored path whose file is gone
IsDeletion(p, key) == p \in StoredPaths(key) /\ fs[p].hash = 0

\* the step is a run of the watch_tick handler
WatchTickStep ==
    /\ lastWatch'.op = "watch"
    /\ lastWatch'.mutated = <<>>
    /\ lastWatch' # lastWatch

\* C34 (directory diff): a run of the handler reports for okrs/ exactly the
\* files that are new or have another hash (as changes) and the stored
\* paths that are gone (as deletions), and for the plans directory exactly
\* the new or modified plan files; afterwards the stored map of each
\* directory is the map of its present files; a run right after a run,
\* with no file changed in between, reports nothing.
C34_DirectoryDiff ==
    [][WatchTickStep =>
         /\ lastWatch'.okrs =
               {[path |-> p, deleted |-> FALSE] :
                   p \in {q \in OkrsFiles : IsChange(q, OkrsKey)}}
               \cup {[path |-> p, deleted |-> TRUE] :
                   p \in {q \in OkrsFiles : IsDeletion(q, OkrsKey)}}
         /\ lastWatch'.plans = {q \in PlanFiles : IsChange(q, PlansKey)}
         /\ DOMAIN kv'[OkrsKey] = {p \in OkrsFiles : fs[p].hash # 0}
         /\ DOMAIN kv'[PlansKey] = {p \in PlanFiles : fs[p].hash # 0}
         /\ \A p \in DOMAIN kv'[OkrsKey] : kv'[OkrsKey][p] = fs[p]
         /\ \A p \in DOMAIN kv'[PlansKey] : kv'[PlansKey][p] = fs[p]
         /\ (lastWatch.op = "watch" /\ lastWatch.mutated = <<>>) =>
               lastWatch'.okrs = {} /\ lastWatch'.plans = {}]_vars

\* a run reported a modified file of okrs/ and the stored map holds its
\* new state
C34_Witness ==
    /\ lastWatch.op = "watch"
    /\ lastWatch.prior
    /\ \E c \in lastWatch.okrs :
          /\ ~c.deleted
          /\ \E m \in 1..Len(lastWatch.since) : lastWatch.since[m].path = c.path
          /\ kv[OkrsKey][c.path] = fs[c.path]
    /\ lastWatch.mutated = <<>>

----------------------------------------------------------------------------
(* The store's inspection operations, and what each operation leaves alone *)

ListLimits == 1..MaxJobs

InspectReturn(op, rows) == [op |-> op, rows |-> rows]

\* the first rows of a query under ORDER BY ... LIMIT: as many as the limit
\* allows, none of them after a row left out (rows with equal keys come in
\* any order)
FirstRows(rows, limit, NotAfter(_, _)) ==
    {S \in SUBSET rows :
        /\ Cardinality(S) = IF Cardinality(rows) < limit
                               THEN Cardinality(rows) ELSE limit
        /\ \A a \in S, b \in rows \ S : NotAfter(a, b)}

ScheduledDesc(a, b) == a.scheduled_at >= b.scheduled_at
ScheduledAsc(a, b) == a.scheduled_at <= b.scheduled_at
FinishedDesc(a, b) == a.finished_at >= b.finished_at

\* a query returns; the tables stay as they are
Inspect(op, rows) ==
    /\ ret' = InspectReturn(op, rows)
    /\ UNCHANGED <<guardVars, revertVars, onceVars, dirVars, planVars, procVars, watchVars, loopVars, tickVars, clock, storeVars, raceVars, enqueued, schedVars>>

ReadJob(jobID) == Inspect("GetJob", {r \in jobs : r.id = jobID})

ListJobs(limit) ==
    \E S \in FirstRows(jobs, limit, ScheduledDesc) : Inspect("ListJobs", S)

ReadRunning == Inspect("ListRunning", ListRunning(jobs))

ListQueued(limit) ==
    \E S \in FirstRows({r \in jobs : r.status = "queued"}, limit, ScheduledAsc) :
        Inspect("ListQueued", S)

ListRecentCompleted(limit) ==
    \E S \in FirstRows({r \in jobs : r.status \in {"succeeded", "failed"}},
                       limit, FinishedDesc) :
        Inspect("ListRecentCompleted", S)

ReadKV(key) == Inspect("GetKV", {GetKV(key)})

\* Store.SetKV
WriteKV(key, value) ==
    /\ kv' = SetKV(key, value)
    /\ ret' = [op |-> "SetKV"]
    /\ UNCHANGED <<guardVars, revertVars, onceVars, dirVars, planVars, procVars, watchVars, loopVars, tickVars, clock, jobs, raceVars, enqueued, schedVars>>

StoreKeys == {WatermarkKey}

StoreJobTypes == {"kr_measure", "custom"}

StoreNext ==
    \/ \E jobType \in StoreJobTypes, scheduledAt \in {0, MaxSchedAt} :
          EnqueueUnique(jobType, scheduledAt)
    \/ \E d \in Daemons : ClaimNext(d)
    \/ \E r \in jobs : Succeed(r.id)
    \/ \E r \in jobs : Fail(r.id)
    \/ \E key \in StoreKeys, value \in 0..1 : WriteKV(key, value)
    \/ \E r \in jobs : ReadJob(r.id)
    \/ \E limit \in ListLimits : ListJobs(limit)
    \/ ReadRunning
    \/ \E limit \in ListLimits : ListQueued(limit)
    \/ \E limit \in ListLimits : ListRecentCompleted(limit)
    \/ \E key \in StoreKeys : ReadKV(key)

StoreSpec == Init /\ [][StoreNext]_vars

InspectionOps ==
    {"GetJob", "ListJobs", "ListQueued", "ListRunning", "ListRecentCompleted",
     "GetKV"}

\* ids of the rows a step adds, removes or alters
ChangedRows == {r.id : r \in (jobs' \ jobs) \cup (jobs \ jobs')}

\* the step is a call of the store that returns
StoreCall == ret' # ret \/ jobs' # jobs \/ kv' # kv

\* C35 (frame of store operations): an inspection operation changes no job
\* row and no KV entry; a ClaimNext that returns a job changes that row,
\* no other row and no KV entry; a ClaimNext that returns none changes
\* nothing; Succeed and Fail change no row but the one of the given id,
\* and no KV entry.
C35_StoreFrame ==
    [][StoreCall =>
         /\ ret'.op \in InspectionOps => jobs' = jobs /\ kv' = kv
         /\ (ret'.op = "ClaimNext" /\ ret'.kind = "job") =>
               ChangedRows = {ret'.id} /\ kv' = kv
         /\ (ret'.op = "ClaimNext" /\ ret'.kind = "none") =>
               jobs' = jobs /\ kv' = kv
         /\ ret'.op \in {"Succeed", "Fail"} =>
               ChangedRows \subseteq {ret'.id} /\ kv' = kv]_vars

\* a ClaimNext returned one of two queued rows while a KV entry is stored
C35_Witness ==
    /\ ret.op = "ClaimNext"
    /\ ret.kind = "job"
    /\ \E r \in jobs : r.id # ret.id /\ r.status = "queued"
    /\ kv # [k \in {} |-> EmptyString]

----------------------------------------------------------------------------
(* Handlers run for claimed rows.  Two daemons poll one store; their
   ClaimNext transactions interleave statement by statement, a daemon may
   die at any point and start again under its lease owner, the clock moves
   past the leases, and EnqueueUnique is called again for rows that exist. *)

Handling(id) == [pc |-> "handling", id |-> id]

\* claimAndExecute, lines 148-151: ClaimNext returned an error or no job
ClaimedNothing(d) ==
    /\ claimTx[d].pc = "returned"
    /\ claimTx[d].kind # "job"
    /\ ClaimReturnToCaller(d)

\* claimAndExecute, lines 163-181: the handler of the returned job is called
Invoke(d) ==
    /\ claimTx[d].pc = "returned"
    /\ claimTx[d].kind = "job"
    /\ invoked' = Append(invoked, claimTx[d].id)
    /\ claimTx' = [claimTx EXCEPT ![d] = Handling(claimTx[d].id)]
    /\ UNCHANGED <<guardVars, revertVars, dirVars, planVars, procVars, watchVars, loopVars, tickVars, clock, storeVars, enqCall, ret, enqueued, schedVars>>

\* claimAndExecute, lines 183-207: the handler returns and the row is
\* marked; a write that finds the database locked leaves the row running
Complete(d, status) ==
    /\ claimTx[d].pc = "handling"
    /\ jobs' = IF WriteBusy(d)
                  THEN jobs
                  ELSE FinishRow(jobs, claimTx[d].id, status,
                                 FormatRFC3339(clock), "result")
    /\ claimTx' = [claimTx EXCEPT ![d] = IdleTx]
    /\ UNCHANGED <<guardVars, revertVars, onceVars, dirVars, planVars, procVars, watchVars, loopVars, tickVars, clock, kv, enqCall, ret, enqueued, schedVars>>

\* the daemon's process dies (an open transaction is rolled back) and is
\* started again with the same lease owner
Crash(d) ==
    /\ claimTx[d].pc # "idle"
    /\ claimTx' = [claimTx EXCEPT ![d] = IdleTx]
    /\ UNCHANGED <<guardVars, revertVars, onceVars, dirVars, planVars, procVars, watchVars, loopVars, tickVars, clock, storeVars, enqCall, ret, enqueued, schedVars>>

OnceNext ==
    \/ \E step \in LeaseSteps : LeaseAdvance(step)
    \/ \E jobType \in JobTypes : EnqueueUnique(jobType, 0)
    \/ \E d \in Daemons : ClaimSelect(d)
    \/ \E d \in Daemons : ClaimUpdate(d)
    \/ \E d \in Daemons : ClaimCommit(d)
    \/ \E d \in Daemons : ClaimedNothing(d)
    \/ \E d \in Daemons : Invoke(d)
    \/ \E d \in Daemons, status \in TerminalStatuses : Complete(d, status)
    \/ \E d \in Daemons : Crash(d)

OnceSpec == Init /\ [][OnceNext]_vars

\* C36 (at-most-once execution): no row has its handler invoked twice,
\* whichever daemon claims it, also after a daemon died with the row
\* claimed, after the row's lease ran out, and after EnqueueUnique was
\* called again for the row.
C36_AtMostOnce ==
    \A i, j \in 1..Len(invoked) : invoked[i] = invoked[j] => i = j

\* a row was handled once and stays running with its lease run out and no
\* daemon at work on it; EnqueueUnique was called again for it, and the
\* other daemon polled and was given nothing
C36_Witness ==
    \E r \in jobs :
        /\ r.status = "running"
        /\ \E i \in 1..Len(invoked) : invoked[i] = r.id
        /\ LeaseExpired(r, clock)
        /\ \A d \in Daemons : claimTx[d].pc \in {"idle", "returned"}
        /\ ret.op = "EnqueueUnique" /\ ret.kind = "exists" /\ ret.id = r.id
        /\ \E e \in Daemons \ {r.lease_owner} :
              claimTx[e].pc = "returned" /\ claimTx[e].kind = "none"
                 /\ claimTx[e].due = {}

----------------------------------------------------------------------------
(* The queue is drained.  One daemon runs its loop on a store no other
   connection writes to; time passes, the scheduler adds watch_tick jobs as
   intervals go by, and jobs scheduled at instant 0 are enqueued from
   outside at any time.  The daemon is in its loop from the start. *)

\* the time between two looks at the clock: a watch interval
LiveSteps == {WatchInterval}

LiveAdvance(step) ==
    /\ jumps < MaxLiveJumps
    /\ jumps' = jumps + 1
    /\ clock' = clock + step
    /\ UNCHANGED <<guardVars, revertVars, onceVars, dirVars, planVars, procVars, storeVars, raceVars, ret, enqueued, location, emitted,
                   coldMark, lastTick, tickVars, watchVars, loopVars>>

LiveJobTypes == {"kr_measure"}

\* what the daemon does: the ticker, and the steps of Run's goroutine
LoopStep ==
    \/ RunPoll
    \/ RunClaim(TRUE)
    \/ \E order \in Orders(NewPlanFiles) : LoopWatchTick(order)
    \/ \E err \in {"", HandlerError} : LoopHandler(err)
    \/ RunFinish(TRUE)

LiveNext ==
    \/ \E step \in LiveSteps : LiveAdvance(step)
    \/ \E jobType \in LiveJobTypes : EnqueueUnique(jobType, 0)
    \/ TickerFire
    \/ LoopStep

\* the ticker keeps firing, and the goroutine of Run is scheduled whenever
\* it can take a step: select takes the tick, every call returns
LiveSpec ==
    /\ WatchInit
    /\ [][LiveNext]_vars
    /\ WF_vars(TickerFire)
    /\ WF_vars(LoopStep)

\* the seconds the clock of LiveSpec can show
LiveSeconds == {WatchIntervalSeconds * b : b \in 0..MaxLiveJumps}

\* the ids of the rows LiveSpec can hold
LiveIds ==
    {JobID(jobType, 0) : jobType \in LiveJobTypes}
    \cup {JobID("watch_tick", s * Second) : s \in LiveSeconds}

StatusOf(id) == {r.status : r \in {x \in jobs : x.id = id}}

\* the row is queued and its scheduled_at has been reached
QueuedDue(id) ==
    \E r \in jobs : r.id = id /\ r.status = "queued" /\ r.scheduled_at * Sub <= clock

\* the step claims row r although a queued row is scheduled before it
PassedOver(r) ==
    /\ r.status = "queued"
    /\ \E c \in jobs' : c.id = r.id /\ c.status = "running"
    /\ \E o \in jobs : o.status = "queued" /\ o.scheduled_at < r.scheduled_at

\* C37 (queue liveness): every queued job whose scheduled_at has been
\* reached is in the end succeeded or failed, and no claim takes a row
\* while a queued row with an earlier scheduled_at waits.
C37_QueueLiveness ==
    /\ \A id \in LiveIds : QueuedDue(id) ~> (StatusOf(id) \subseteq TerminalStatuses)
    /\ [][\A r \in jobs : ~PassedOver(r)]_vars

\* a job enqueued from outside is terminal while watch_tick jobs of the
\* scheduler, scheduled after it, have been added
C37_Witness ==
    \E r \in jobs, w \in jobs :
        /\ r.type \in LiveJobTypes
        /\ r.status \in TerminalStatuses
        /\ w.type = "watch_tick"
        /\ w.scheduled_at > r.scheduled_at
        /\ w.status \in TerminalStatuses

----------------------------------------------------------------------------
(* A clock that is set back.  Tick is handed time.Now(), the wall clock of
   the host, which an operator or a time service can move to an earlier
   instant; the stored watermark is then ahead of now. *)

ClockMove(step, back) ==
    /\ jumps < MaxBackJumps
    /\ jumps' = jumps + 1
    /\ clock' = IF back THEN clock - step ELSE clock + step
    /\ clock' >= 0
    /\ UNCHANGED <<guardVars, revertVars, onceVars, dirVars, planVars, procVars, watchVars, loopVars, tickVars, storeVars, raceVars, ret, enqueued, location, emitted,
                   coldMark, lastTick>>

BackNext ==
    \/ \E step \in SchedSteps, back \in BOOLEAN : ClockMove(step, back)
    \/ Tick

BackSpec == SchedInit /\ [][BackNext]_vars

\* the step is a Tick call that found a watermark not before its now
LateTick ==
    /\ lastTick' # lastTick
    /\ lastTick'.op = "Tick"
    /\ lastTick'.w # EmptyString
    /\ lastTick'.now <= ParseRFC3339(lastTick'.w)

\* C38 (Tick at or before the watermark): a Tick whose now is not later
\* than the stored watermark leaves the job rows and every other KV entry
\* as they are and stores now as the watermark.
C38_LateTickFrame ==
    [][LateTick =>
         /\ jobs' = jobs
         /\ DOMAIN kv' = DOMAIN kv
         /\ \A k \in DOMAIN kv \ {WatermarkKey} : kv'[k] = kv[k]
         /\ kv'[WatermarkKey] = FormatRFC3339(lastTick'.now)]_vars

\* a Tick ran with the clock set back behind the watermark, which was on a
\* 30-second boundary, and moved the watermark back
C38_Witness ==
    /\ lastTick.op = "Tick"
    /\ lastTick.w # EmptyString
    /\ lastTick.now < ParseRFC3339(lastTick.w)
    /\ ParseRFC3339(lastTick.w) % WatchInterval = 0
    /\ kv[WatermarkKey] < lastTick.w
    /\ clock = lastTick.now

----------------------------------------------------------------------------
(* Plan runs under the watcher.  The daemon executes plan_execute jobs; a
   run writes its artifacts below artifacts/plans, which the watch_tick
   handler walks.  plan.json files are written from outside, watch_tick
   jobs are enqueued as time passes. *)

\* content other than the file's
Rewritten(f) == File(IF f.hash = 1 THEN 2 ELSE 1, f.mtime)

\* claimAndExecute: the handler of a plan_execute job runs; RunPlan writes
\* prompt.md and the adapter result.json (which carries generated_at, so
\* its content is new each time) and returns
LoopPlanRun(err) ==
    /\ run.pc = "started"
    /\ run.type = "plan_execute"
    /\ fs' = [p \in DOMAIN fs |->
                IF p = RunPrompt THEN File(1, 0)
                ELSE IF p = RunResult THEN Rewritten(fs[p])
                ELSE fs[p]]
    /\ lastWatch' = [lastWatch EXCEPT !.mutated =
                        @ \o <<[path |-> RunPrompt, kind |-> "write"],
                               [path |-> RunResult, kind |-> "write"]>>]
    /\ run' = [run EXCEPT !.pc = "handled", !.err = err]
    /\ UNCHANGED <<guardVars, revertVars, onceVars, dirVars, planVars, procVars, clock, storeVars, raceVars, ret, enqueued, schedVars,
                   tickVars, edits, audit>>

RetriggerNext ==
    \/ WatchAdvance
    \/ EnqueueUnique("watch_tick", clock)
    \/ \E path \in PlanFiles, hash \in Contents : WriteFile(path, hash, 0)
    \/ LoopClaim
    \/ \E order \in Orders(NewPlanFiles) : LoopWatchTick(order)
    \/ \E err \in {"", HandlerError} : LoopPlanRun(err)
    \/ LoopFinish

RetriggerSpec == WatchInit /\ [][RetriggerNext]_vars

\* the plan.json files written since the last run of the watch_tick handler
PlansWritten ==
    {lastWatch.mutated[i].path : i \in 1..Len(lastWatch.mutated)} \cap PlanFiles

\* C39 (plan execution does not retrigger itself): a run of the watch_tick
\* handler that follows another run calls EnqueueUnique for plan_execute
\* only with plan.json files written with new content since that run; when
\* none was, whatever artifacts plan runs wrote, it calls it for none and
\* adds no plan_execute row.
C39_NoSelfRetrigger ==
    [][(WatchTickStep /\ lastWatch.op = "watch") =>
         /\ lastWatch'.plans \subseteq PlansWritten
         /\ PlansWritten = {} =>
               \A r \in jobs' \ jobs : r.type # "plan_execute"]_vars

\* a plan_execute job ran, and the run of the watch_tick handler after it
\* came upon the new result.json, reported a change of the plans directory
\* and enqueued nothing
C39_Witness ==
    /\ lastWatch.op = "watch"
    /\ lastWatch.prior
    /\ \E i \in 1..Len(lastWatch.since) : lastWatch.since[i].path = RunResult
    /\ lastWatch.status = "changes_detected"
    /\ lastWatch.plans = {}
    /\ lastWatch.created = {}
    /\ RunResult \in DOMAIN kv[PlansKey]
    /\ \E r \in jobs : r.type = "plan_execute" /\ r.status \in TerminalStatuses

----------------------------------------------------------------------------
(* The guardrail's revert.  RunPlan has no guardrail step (C26); the step
   is taken as the specification describes it (snapshot, adapter run,
   snapshot, revert and violation.json on a change), around the functions
   of the guardrails package. *)

TreeContents == {Absent, File(1, 0), File(2, 0)}

\* the workspaces an adapter run can start in: any files under okrs/, and,
\* in a VCS workdir, any index entries for them; edits may be uncommitted
\* and files untracked
Workspaces ==
    {t \in [work : [GuardFiles -> TreeContents],
            index : [GuardFiles -> {Absent, File(1, 0)}],
            repo : BOOLEAN] :
        t.repo \/ \A p \in GuardFiles : t.index[p] = Absent}

\* `git checkout -- okrs`: every path of the index under okrs/ is written
\* to the working tree; other files are left alone
GitCheckout(t) ==
    [p \in GuardFiles |-> IF t.index[p] # Absent THEN t.index[p] ELSE t.work[p]]

\* RevertOKRs: the error it returns ("" for nil)
RevertError(t) ==
    IF ~t.repo
       THEN "workspace is not a git repository, cannot revert okrs/ changes"
    ELSE IF \A p \in GuardFiles : t.index[p] = Absent
       THEN "git checkout failed"
    ELSE ""

\* RevertOKRs: okrs/ afterwards
RevertOKRs(t) == IF RevertError(t) = "" THEN GitCheckout(t) ELSE t.work

\* NewIntegrityCheck: before_hash is taken
CaptureBefore ==
    /\ guardCheck.pc = "idle"
    /\ guardCheck' = Check("before", DirHash(okrsTree.work, GuardFiles), FALSE, "")
    /\ UNCHANGED <<guardVars, onceVars, dirVars, planVars, procVars, watchVars, loopVars, tickVars, clock, storeVars, raceVars, ret, enqueued, schedVars, okrsTree>>

\* the adapter runs; the agent leaves okrs/ in any state
AgentRun(work) ==
    /\ guardCheck.pc = "before"
    /\ okrsTree' = [okrsTree EXCEPT !.work = work]
    /\ guardCheck' = [guardCheck EXCEPT !.pc = "ran"]
    /\ UNCHANGED <<guardVars, onceVars, dirVars, planVars, procVars, watchVars, loopVars, tickVars, clock, storeVars, raceVars, ret, enqueued, schedVars>>

\* CaptureAfter and HasChanges; on a change RevertOKRs, and violation.json
\* with reverted and revert_error
CaptureAfter ==
    LET afterHash == DirHash(okrsTree.work, GuardFiles)
        err == RevertError(okrsTree)
    IN  /\ guardCheck.pc = "ran"
        /\ IF guardCheck.before # afterHash
              THEN /\ okrsTree' = [okrsTree EXCEPT !.work = RevertOKRs(okrsTree)]
                   /\ guardCheck' = Check("violation", guardCheck.before,
                                          err = "", err)
              ELSE /\ okrsTree' = okrsTree
                   /\ guardCheck' = [guardCheck EXCEPT !.pc = "clean"]
        /\ UNCHANGED <<guardVars, onceVars, dirVars, planVars, procVars, watchVars, loopVars, tickVars, clock, storeVars, raceVars, ret, enqueued, schedVars>>

RevertNext ==
    \/ CaptureBefore
    \/ \E work \in [GuardFiles -> TreeContents] : AgentRun(work)
    \/ CaptureAfter

RevertInit ==
    /\ clock = 0
    /\ jobs = {}
    /\ kv = [k \in {} |-> EmptyString]
    /\ claimTx = [d \in Daemons |-> IdleTx]
    /\ enqCall = [p \in Procs |-> IdleTx]
    /\ ret = NoCall
    /\ enqueued = {}
    /\ location = 0
    /\ emitted = {}
    /\ coldMark = NULL
    /\ lastTick = NoCall
    /\ jumps = 0
    /\ tickTx = [s \in Schedulers |-> IdleTick]
    /\ fs = [p \in AllFiles |-> Absent]
    /\ lastWatch = NoCall
    /\ edits = 0
    /\ run = IdleRun
    /\ audit = <<>>
    /\ doc = NoDoc
    /\ verdict = NoVerdict
    /\ planRun = IdlePlan
    /\ itemDirs = [i \in Items |-> EmptyDir]
    /\ cancelled = FALSE
    /\ ticker = FALSE
    /\ lost = {}
    /\ dirRuns = [w \in Runners |-> NoDirRun]
    /\ runFiles = {}
    /\ invoked = <<>>
    /\ okrsTree \in Workspaces
    /\ guardCheck = NoCheck

RevertSpec == RevertInit /\ [][RevertNext]_vars

\* C40 (a successful revert restores the protected subtree): when a
\* violation is recorded with reverted=true, the fingerprint of okrs/ is
\* before_hash again.
C40_RevertRestores ==
    (guardCheck.pc = "violation" /\ guardCheck.reverted) =>
        DirHash(okrsTree.work, GuardFiles) = guardCheck.before

\* the revert does restore a tree whose files were all committed and in
\* which the agent made no new file
CommittedTreeRestored ==
    (/\ guardCheck.pc = "violation"
     /\ guardCheck.reverted
     /\ guardCheck.before = DirHash(okrsTree.index, GuardFiles)
     /\ \A p \in GuardFiles : okrsTree.index[p] = Absent => okrsTree.work[p] = Absent)
        => DirHash(okrsTree.work, GuardFiles) = guardCheck.before

====
